---- MODULE Spec2Model ----
(***************************************************************************)
(* Model of the libaas backend: the AI response normalizers                *)
(* (app/components/ai/style_insights.py, clip_insights.py,                 *)
(* outfit_generator.py) and the route handlers that drive them             *)
(* (app/routes/auth.py, app/routes/wardrobe.py).                           *)
(*                                                                         *)
(* Text is modelled as a sequence of lexical tokens.  A token stands for   *)
(* one character, except JS, which stands for the four characters "json",  *)
(* and a kv token, which stands for one key/value member of a JSON         *)
(* object together with its separator.                                     *)
(***************************************************************************)
EXTENDS Integers, Sequences, FiniteSets, TLC

(***************************************************************************)
(* Bounds                                                                  *)
(***************************************************************************)
\* longest raw token string fed to the fence stripper
MaxStripLen == 7
\* longest raw (unstructured) token string fed to the normalizers
MaxRawLen == 3
\* number of distinct values the provider may put under a key
NumProvVals == 2

(***************************************************************************)
(* Tokens and Python string primitives                                     *)
(***************************************************************************)
Tok(t) == [t |-> t, k |-> "", v |-> ""]
BT == Tok("backtick")
JS == Tok("json")
WS == Tok("ws")
GX == Tok("x")
LB == Tok("{")
RB == Tok("}")
SC == Tok("scalar")
KV(k, v) == [t |-> "kv", k |-> k, v |-> v]

IsWs(c) == c.t = "ws"

RECURSIVE LStrip(_)
LStrip(s) == IF s # <<>> /\ IsWs(Head(s)) THEN LStrip(Tail(s)) ELSE s

RECURSIVE RStrip(_)
RStrip(s) ==
  IF s # <<>> /\ IsWs(s[Len(s)]) THEN RStrip(SubSeq(s, 1, Len(s) - 1)) ELSE s

\* str.strip()
PyStrip(s) == RStrip(LStrip(s))

\* str.startswith / str.endswith
StartsWith(s, p) == Len(s) >= Len(p) /\ SubSeq(s, 1, Len(p)) = p
EndsWith(s, p) == Len(s) >= Len(p) /\ SubSeq(s, Len(s) - Len(p) + 1, Len(s)) = p

\* s[n:] and s[:-n], n counted in tokens
DropFirst(s, n) == SubSeq(s, n + 1, Len(s))
DropLast(s, n) == SubSeq(s, 1, Len(s) - n)

Fence == <<BT, BT, BT>>
FenceJson == <<BT, BT, BT, JS>>

(***************************************************************************)
(* style_insights.py 87-96: markdown code fence removal                    *)
(***************************************************************************)
StripFence(content) ==
  LET c0 == PyStrip(content)
      c1 == IF StartsWith(c0, FenceJson) THEN DropFirst(c0, Len(FenceJson)) ELSE c0
      c2 == IF StartsWith(c1, Fence) THEN DropFirst(c1, Len(Fence)) ELSE c1
      c3 == IF EndsWith(c2, Fence) THEN DropLast(c2, Len(Fence)) ELSE c2
  IN  PyStrip(c3)

(***************************************************************************)
(* json.loads on a token string                                            *)
(***************************************************************************)
EmptyObj == <<>>
JObj(f) == [ok |-> TRUE, isObj |-> TRUE, obj |-> f]
JScalar == [ok |-> TRUE, isObj |-> FALSE, obj |-> EmptyObj]
JErr == [ok |-> FALSE, isObj |-> FALSE, obj |-> EmptyObj]

\* members of an object, left to right; a repeated key keeps its last value
RECURSIVE ParseMembers(_, _)
ParseMembers(s, acc) ==
  IF s = <<>> THEN acc
  ELSE ParseMembers(Tail(s),
         [k \in DOMAIN acc \cup {Head(s).k} |->
            IF k = Head(s).k THEN Head(s).v ELSE acc[k]])

JsonLoads(text) ==
  LET s == SelectSeq(text, LAMBDA c : ~IsWs(c))
  IN  IF Len(s) = 1 /\ s[1] = SC THEN JScalar
      ELSE IF /\ Len(s) >= 2
              /\ s[1] = LB
              /\ s[Len(s)] = RB
              /\ \A i \in 2..(Len(s) - 1) : s[i].t = "kv"
           THEN JObj(ParseMembers(SubSeq(s, 2, Len(s) - 1), EmptyObj))
           ELSE JErr

\* dict.get(k, default)
Get(d, k, default) == IF k \in DOMAIN d THEN d[k] ELSE default

(***************************************************************************)
(* Provider outcomes.  A provider call either raises (json.JSONDecodeError *)
(* out of the client's own decoding of the HTTP body, or any other         *)
(* exception), or returns a message whose content is None or a text.       *)
(***************************************************************************)
Raises(kind) == [kind |-> kind, text |-> <<>>]
Replies(text) == [kind |-> "text", text |-> text]
FailureKinds == {"raise_json", "raise", "none"}
NoReply == [kind |-> "pending", text |-> <<>>]

(***************************************************************************)
(* style_insights.py: generate_style_insights                              *)
(***************************************************************************)
StyleKeys == {"summary", "color_palette", "style_recommendations",
              "wardrobe_essentials", "fashion_dos", "fashion_donts",
              "cultural_tips"}

SummaryParseFailed == "We're having trouble generating insights right now. Please try again later."
SummaryUnable == "Unable to generate insights at this time."
Placeholders == {SummaryParseFailed, SummaryUnable}

\* the "insights" object of both except branches (lines 112-120, 127-135)
DefaultInsights(summary) ==
  [k \in StyleKeys |->
     IF k = "summary" THEN summary
     ELSE IF k = "cultural_tips" THEN "''" ELSE "[]"]

\* lines 100-104
StyleSuccess(insights) ==
  [raised |-> FALSE, success |-> TRUE, hasError |-> FALSE, error |-> "",
   insights |-> insights]

\* variant: the fallback object is returned with "success": True
StyleFallbackAsSuccess(error, summary) ==
  [raised |-> FALSE, success |-> TRUE, hasError |-> TRUE, error |-> error,
   insights |-> JObj(DefaultInsights(summary))]

\* lines 109-121 and 124-136
StyleFallback(error, summary) ==
  [raised |-> FALSE, success |-> FALSE, hasError |-> TRUE, error |-> error,
   insights |-> JObj(DefaultInsights(summary))]

\* an exception leaving generate_style_insights
StyleRaised(error) ==
  [raised |-> TRUE, success |-> FALSE, hasError |-> FALSE, error |-> error,
   insights |-> JErr]

\* lines 87-98 followed by the return or the JSONDecodeError handler
StyleFromContent(text) ==
  LET content == StripFence(text)
      insights == JsonLoads(content)
  IN  IF insights.ok
      THEN StyleSuccess(insights)
      ELSE StyleFallback("Failed to generate insights", SummaryParseFailed)

\* lines 68-136.  When the awaited create() itself raises json.JSONDecodeError,
\* the first handler's print of `content` (line 108) reads a local that was
\* never bound and UnboundLocalError leaves the function.
generate_style_insights(outcome) ==
  CASE outcome.kind = "raise_json" -> StyleRaised("UnboundLocalError")
    [] outcome.kind = "raise"      -> StyleFallback("str(e)", SummaryUnable)
    [] outcome.kind = "none"       -> StyleFallback("str(e)", SummaryUnable)
    [] OTHER                       -> StyleFromContent(outcome.text)

(***************************************************************************)
(* clip_insights.py: analyze_image                                         *)
(***************************************************************************)
ImageKeys == {"top_label", "top_confidence", "all_predictions"}

ImageDefault(k) ==
  IF k = "top_label" THEN "unknown"
  ELSE IF k = "top_confidence" THEN "0.0" ELSE "[]"

\* lines 72-77
ImageFallback(error) ==
  [k \in ImageKeys \cup {"error"} |->
     IF k = "error" THEN error ELSE ImageDefault(k)]

\* variant: `result_json.get(k) or default`, which also replaces a null value
ImageNormalizedOr(result_json) ==
  [k \in ImageKeys \cup {"source"} |->
     IF k = "source" THEN "gpt-4o-mini"
     ELSE IF k \in DOMAIN result_json /\ result_json[k] # "null"
          THEN result_json[k] ELSE ImageDefault(k)]

\* lines 63-68
ImageNormalized(result_json) ==
  [k \in ImageKeys \cup {"source"} |->
     IF k = "source" THEN "gpt-4o-mini"
     ELSE Get(result_json, k, ImageDefault(k))]

\* variant: a failed analysis yields the defaults of a successful one
analyze_image_unmarked(outcome) ==
  IF outcome.kind # "text" THEN ImageNormalized(EmptyObj)
  ELSE LET result_json == JsonLoads(outcome.text)
       IN  IF ~result_json.ok \/ ~result_json.isObj THEN ImageNormalized(EmptyObj)
           ELSE ImageNormalized(result_json.obj)

\* lines 24-77: everything runs inside try / except Exception
analyze_image(outcome) ==
  IF outcome.kind # "text" THEN ImageFallback("str(e)")
  ELSE LET result_json == JsonLoads(outcome.text)
       IN  IF ~result_json.ok THEN ImageFallback("str(e)")
           ELSE IF ~result_json.isObj THEN ImageFallback("str(e)")
           ELSE ImageNormalized(result_json.obj)

(***************************************************************************)
(* outfit_generator.py: generate_outfit_recommendations                    *)
(***************************************************************************)
SectionNames == {"top", "layer", "bottom", "footwear", "accessories"}
LookTitle == <<"Look 1", "Look 2", "Look 3">>

\* the value of a section: a JSON object with its members, a non-empty value
\* of another type, or a falsy value (null, "", {}, [])
SectionObj(fields) == [kind |-> "obj", fields |-> fields]
SectionText == [kind |-> "text", fields |-> EmptyObj]
SectionEmpty == [kind |-> "empty", fields |-> EmptyObj]
Truthy(data) == data.kind = "text" \/ (data.kind = "obj" /\ data.fields # EmptyObj)

Look(fields, sections) == [fields |-> fields, sections |-> sections]

\* the lists a provider reply may hold under "outfits", by name
OutfitLists ==
  [v \in {"[]", "looks", "looks_bare", "looks_bad"} |->
     CASE v = "[]" -> <<>>
       [] v = "looks" ->
            <<Look(("title" :> "Eid" @@ "description" :> "why"),
                   ("top" :> SectionObj(("item" :> "kurta" @@ "details" :> "d"))
                    @@ "layer" :> SectionEmpty
                    @@ "accessories" :> SectionObj(("items" :> "watch")))),
              Look(EmptyObj,
                   ("bottom" :> SectionObj(("color" :> "navy"))))>>
       [] v = "looks_bare" -> <<Look(EmptyObj, EmptyObj)>>
       [] v = "looks_bad" ->
            <<Look(("title" :> "Eid"),
                   ("top" :> SectionObj(("item" :> "kurta"))
                    @@ "footwear" :> SectionText))>>]

\* lines 96-113: one section of one outfit
ProcessSection(section_name, data) ==
  IF section_name = "accessories"
  THEN ("items" :> Get(data.fields, "items", "[]"))
  ELSE ("item" :> Get(data.fields, "item", "''")
        @@ "details" :> Get(data.fields, "details", "[]"))

\* variant: a section that is not a dict is read as an empty one
SectionNeverRaises(outfit) == FALSE

\* data.get(...) on a section that is truthy but not a dict raises
SectionRaises(outfit) ==
  \E n \in DOMAIN outfit.sections :
    Truthy(outfit.sections[n]) /\ outfit.sections[n].kind # "obj"

\* lines 91-126: one entry of the returned list
ProcessOutfit(idx, outfit) ==
  [id |-> idx,
   title |-> Get(outfit.fields, "title", LookTitle[idx]),
   description |-> Get(outfit.fields, "description", "''"),
   sections |-> [n \in {m \in DOMAIN outfit.sections : Truthy(outfit.sections[m])} |->
                   ProcessSection(n, outfit.sections[n])]]

OutfitsRaised == [raised |-> TRUE, outfits |-> <<>>]
OutfitsReturned(outfits) == [raised |-> FALSE, outfits |-> outfits]

\* variant: a reply that is not a JSON object yields an empty list (a default)
\* instead of raising
generate_outfit_recommendations_or_empty(client, outcome) ==
  IF ~client \/ outcome.kind # "text" THEN OutfitsRaised
  ELSE LET recommendations_data == JsonLoads(outcome.text)
           v == Get(recommendations_data.obj, "outfits", "[]")
       IN  IF ~recommendations_data.ok \/ ~recommendations_data.isObj
           THEN OutfitsReturned(<<>>)
           ELSE IF v \notin DOMAIN OutfitLists THEN OutfitsRaised
           ELSE IF \E i \in DOMAIN OutfitLists[v] : SectionRaises(OutfitLists[v][i])
                THEN OutfitsRaised
                ELSE OutfitsReturned(
                       [i \in DOMAIN OutfitLists[v] |->
                          ProcessOutfit(i, OutfitLists[v][i])])

\* lines 42-134: no branch substitutes a default, every exception is re-raised
generate_outfit_recommendations(client, outcome) ==
  IF ~client THEN OutfitsRaised
  ELSE IF outcome.kind # "text" THEN OutfitsRaised
  ELSE LET recommendations_data == JsonLoads(outcome.text)
       IN  IF ~recommendations_data.ok \/ ~recommendations_data.isObj
           THEN OutfitsRaised
           ELSE LET v == Get(recommendations_data.obj, "outfits", "[]")
                IN  IF v \notin DOMAIN OutfitLists THEN OutfitsRaised
                    ELSE IF \E i \in DOMAIN OutfitLists[v] : SectionRaises(OutfitLists[v][i])
                         THEN OutfitsRaised
                         ELSE OutfitsReturned(
                                [i \in DOMAIN OutfitLists[v] |->
                                   ProcessOutfit(i, OutfitLists[v][i])])


(***************************************************************************)
(* Provider replies enumerated for the normalizers                         *)
(***************************************************************************)
ProvValPool == <<"a", "null", "b", "c">>
ProvVals == {ProvValPool[i] : i \in 1..NumProvVals}

\* every JSON object over a set of keys: each key absent or bound to a value
ObjectsOver(keys) == UNION {[K -> ProvVals] : K \in SUBSET keys}

KeyOrder == <<"summary", "color_palette", "style_recommendations",
              "wardrobe_essentials", "fashion_dos", "fashion_donts",
              "cultural_tips", "top_label", "top_confidence",
              "all_predictions", "outfits">>

RECURSIVE RenderMembers(_, _)
RenderMembers(obj, order) ==
  IF order = <<>> THEN <<>>
  ELSE (IF Head(order) \in DOMAIN obj
        THEN <<KV(Head(order), obj[Head(order)])>> ELSE <<>>)
       \o RenderMembers(obj, Tail(order))

\* the JSON text of an object
Render(obj) == <<LB>> \o RenderMembers(obj, KeyOrder) \o <<RB>>

Wrappers == {"plain", "padded", "fence", "fence_json"}
Wrap(w, body) ==
  CASE w = "plain"      -> body
    [] w = "padded"     -> <<WS>> \o body \o <<WS>>
    [] w = "fence"      -> Fence \o <<WS>> \o body \o <<WS>> \o Fence
    [] w = "fence_json" -> FenceJson \o <<WS>> \o body \o <<WS>> \o Fence

StringsUpTo(alphabet, n) == UNION {[1..m -> alphabet] : m \in 0..n}

RawAlphabet == {LB, RB, BT, WS, GX, SC, KV("summary", "a")}
FenceAlphabet == {BT, JS, WS, GX}

NormTexts ==
  {Wrap(w, Render(o)) : w \in Wrappers,
                        o \in ObjectsOver(StyleKeys) \cup ObjectsOver(ImageKeys)}
  \cup StringsUpTo(RawAlphabet, MaxRawLen)

NormOutcomes == {Raises(k) : k \in FailureKinds} \cup {Replies(t) : t \in NormTexts}

VARIABLES
  stext, sonce, stwice, sstage,           \* fence stripping applied twice
  outcome, styleOut, imageOut, normDone,  \* one provider outcome, both normalizers
  user_profile, outfit_prompt, image_prompt, promptDone,  \* one profile, both prompts
  users,           \* the users table: id -> row
  groqConfigured,  \* outfit_generator.client is not None (GROQ_API_KEY was set)
  pc,              \* request -> position of its handler
  req,             \* request -> endpoint and user_id path/form parameter
  result,          \* request -> local `result` of get_style_insights
  user_data,       \* request -> clip_insights of the row re-read before the write
  resp,            \* request -> the HTTP response, once sent
  calls,           \* request -> number of provider calls issued so far
  reply,           \* request -> outcome of its provider call
  writeLog,        \* requests whose update of the users table was executed, in order
  form,            \* request -> the form or JSON body sent to an account handler
  image_url,       \* request -> local `image_url`, set when the upload has returned
  clip_insights_data,  \* request -> local `clip_insights_data` of signup
  storage,         \* object storage: the names of the stored files
  effects,         \* request -> store operations its account handler has performed
  items,           \* the wardrobe_items table: the set of stored items
  served,          \* number of calls accepted so far
  call             \* request -> method and path of the call, as routed by the application

pureVars == <<stext, sonce, stwice, sstage, outcome, styleOut, imageOut, normDone,
             user_profile, outfit_prompt, image_prompt, promptDone>>
promptVars == <<user_profile, outfit_prompt, image_prompt, promptDone>>
fenceVars == <<stext, sonce, stwice, sstage>>
normVars == <<outcome, styleOut, imageOut, normDone>>
acctVars == <<form, image_url, clip_insights_data, storage, effects>>
wardVars == <<items, served, call>>
appVars == <<users, groqConfigured, pc, req, result, user_data, resp, calls, reply, writeLog,
             acctVars, wardVars>>
vars == <<pureVars, appVars>>

FenceIdle == stext = <<>> /\ sonce = <<>> /\ stwice = <<>> /\ sstage = 0
NormIdle ==
  /\ outcome = Raises("raise")
  /\ styleOut = StyleRaised("")
  /\ imageOut = ImageFallback("")
  /\ normDone = {}
PromptIdle ==
  user_profile = EmptyObj /\ outfit_prompt = <<>> /\ image_prompt = <<>> /\ promptDone = {}

(***************************************************************************)
(* The users table and the requests                                        *)
(***************************************************************************)
\* number of requests handled concurrently
NumRequests == 2
Reqs == 1..NumRequests
UserIds == {"u1", "u2"}
Endpoints == {"profile", "style", "outfit"}

\* The clip_insights column: None, or a dict.  `base` holds the keys written
\* at signup (the result of analyze_image); persisted_style_insights, whose
\* value is a JSON value rather than a string, is held in hasPsi/psi.
ClipNone == [isNone |-> TRUE, base |-> EmptyObj, hasPsi |-> FALSE, psi |-> JErr]
ClipDict(base) == [isNone |-> FALSE, base |-> base, hasPsi |-> FALSE, psi |-> JErr]

\* variant: the blob is built anew, whatever the row held
OrEmptyDictFresh(clip) == ClipDict(EmptyObj)

\* user_data.get("clip_insights") or {}
OrEmptyDict(clip) == IF clip.isNone THEN ClipDict(EmptyObj) ELSE clip

\* variant: setdefault, an already persisted value is kept
SetPersistedOnce(clip, insights) ==
  IF clip.hasPsi THEN clip ELSE [clip EXCEPT !.hasPsi = TRUE, !.psi = insights]

\* current_clip_insights["persisted_style_insights"] = insights
SetPersisted(clip, insights) == [clip EXCEPT !.hasPsi = TRUE, !.psi = insights]

\* Python's None, and the values an `if x:` test takes as false
PyNone == "None"
Falsy(v) == v \in {PyNone, ""}

\* the columns of a row that update_profile may write
ProfileFields == {"name", "gender", "country", "height", "body_shape", "skin_tone"}
NoProfile == [f \in ProfileFields |-> PyNone]

\* the image_url column: None, or the public URL of a stored file
NoUrl == [isNone |-> TRUE, file |-> 0]
PublicUrl(filename) == [isNone |-> FALSE, file |-> filename]

\* a password of n characters, all equal to c
Password(n, c) == [i \in 1..n |-> c]
MinPasswordLen == 6
GoodPassword == Password(MinPasswordLen, 1)
OtherPassword == Password(MinPasswordLen, 2)
ShortPassword == Password(MinPasswordLen - 1, 1)

\* app.components.auth.utils: the hash is not the password, and a password
\* verifies against the hash made from it and against no other
hash_password(password) == <<"hashed">> \o password
verify_password(password, password_hash) == password_hash = hash_password(password)

FirstEmail == "a@x"
NewEmail == "b@x"
Emails == {FirstEmail, NewEmail}

\* ids of the rows that signup may create, in the order the store hands them out
IdPool == <<"n1", "n2", "n3", "n4">>
NewIds == {IdPool[i] : i \in DOMAIN IdPool}
RowIds == UserIds \cup NewIds

NoRow ==
  [exists |-> FALSE, clip_insights |-> ClipNone, email |-> "", password_hash |-> <<>>,
   image_url |-> NoUrl, profile |-> NoProfile]

\* the row of the user registered before the first request, as signup wrote it
Row(clip) ==
  [exists |-> TRUE, clip_insights |-> clip, email |-> FirstEmail,
   password_hash |-> hash_password(GoodPassword), image_url |-> NoUrl,
   profile |-> [NoProfile EXCEPT !["name"] = "a", !["gender"] = "male",
                                 !["country"] = "a"]]

\* app.core.database.get_user_by_id: the row, or a falsy value if there is none
get_user_by_id(user_id) == IF user_id \in DOMAIN users THEN users[user_id] ELSE NoRow

\* variant: the filter of the update matches no row
UpdateClipInsightsNoMatch(user_id, c) == users

\* supabase.table("users").update({"clip_insights": c}).eq("id", user_id).execute()
UpdateClipInsights(user_id, c) ==
  IF users[user_id].exists
  THEN [users EXCEPT ![user_id].clip_insights = c]
  ELSE users

(***************************************************************************)
(* HTTP responses                                                          *)
(***************************************************************************)
NoResp ==
  [status |-> 0, success |-> "absent", hasInsights |-> FALSE, insights |-> JErr,
   hasRecs |-> FALSE, recs |-> <<>>, detail |-> "",
   message |-> "", body |-> EmptyObj, clip_insights |-> ClipNone,
   data |-> NoRow, image_url |-> NoUrl, count |-> 0]

\* raise HTTPException(status_code, detail)
HTTPException(status, detail) == [NoResp EXCEPT !.status = status, !.detail = detail]

\* JSONResponse / dict body with "success" and "insights"
InsightsResponse(status, success, insights) ==
  [NoResp EXCEPT !.status = status, !.success = success,
                 !.hasInsights = TRUE, !.insights = insights]

\* JSONResponse with "success": True and "recommendations"
RecommendationsResponse(recs) ==
  [NoResp EXCEPT !.status = 200, !.success = "true", !.hasRecs = TRUE, !.recs = recs]

\* the form of a request that carries none
NoImage == [present |-> FALSE, content_type |-> [type |-> "", subtype |-> ""], size |-> 0]
ItemFields == {"name", "category", "tags"}
NoItemFields == [f \in ItemFields |-> PyNone]
NoForm ==
  [email |-> "", password |-> <<>>, image |-> NoImage, fields |-> NoProfile,
   item_id |-> "", item |-> NoItemFields]
NoCall == [method |-> "", path |-> <<>>]

AcctIdle ==
  /\ form = [r \in Reqs |-> NoForm]
  /\ image_url = [r \in Reqs |-> NoUrl]
  /\ clip_insights_data = [r \in Reqs |-> ClipNone]
  /\ storage = {}
  /\ effects = [r \in Reqs |-> {}]
  /\ items = {}
  /\ served = 0
  /\ call = [r \in Reqs |-> NoCall]

AppIdle ==
  /\ AcctIdle
  /\ users = [u \in RowIds |-> NoRow]
  /\ groqConfigured = FALSE
  /\ pc = [r \in Reqs |-> "idle"]
  /\ req = [r \in Reqs |-> [endpoint |-> "profile", user_id |-> "u1"]]
  /\ result = [r \in Reqs |-> StyleRaised("")]
  /\ user_data = [r \in Reqs |-> ClipNone]
  /\ resp = [r \in Reqs |-> NoResp]
  /\ calls = [r \in Reqs |-> 0]
  /\ reply = [r \in Reqs |-> NoReply]
  /\ writeLog = <<>>


(***************************************************************************)
(* SpecFence: the fence stripper on every short token string               *)
(***************************************************************************)
InitFence ==
  /\ stext \in StringsUpTo(FenceAlphabet, MaxStripLen)
  /\ sonce = <<>> /\ stwice = <<>> /\ sstage = 0
  /\ NormIdle
  /\ PromptIdle
  /\ AppIdle

StripOnce ==
  /\ sstage = 0
  /\ sonce' = StripFence(stext)
  /\ sstage' = 1
  /\ UNCHANGED <<stext, stwice, normVars, appVars, promptVars>>

StripAgain ==
  /\ sstage = 1
  /\ stwice' = StripFence(sonce)
  /\ sstage' = 2
  /\ UNCHANGED <<stext, sonce, normVars, appVars, promptVars>>

NextFence == StripOnce \/ StripAgain
SpecFence == InitFence /\ [][NextFence]_vars

(***************************************************************************)
(* SpecNorm: both normalizers on every enumerated provider outcome         *)
(***************************************************************************)
InitNorm ==
  /\ outcome \in NormOutcomes
  /\ styleOut = StyleRaised("")
  /\ imageOut = ImageFallback("")
  /\ normDone = {}
  /\ FenceIdle
  /\ PromptIdle
  /\ AppIdle

NormStyle ==
  /\ "style" \notin normDone
  /\ styleOut' = generate_style_insights(outcome)
  /\ normDone' = normDone \cup {"style"}
  /\ UNCHANGED <<outcome, imageOut, fenceVars, appVars, promptVars>>

NormImage ==
  /\ "image" \notin normDone
  /\ imageOut' = analyze_image(outcome)
  /\ normDone' = normDone \cup {"image"}
  /\ UNCHANGED <<outcome, styleOut, fenceVars, appVars, promptVars>>

NextNorm == NormStyle \/ NormImage
SpecNorm == InitNorm /\ [][NextNorm]_vars

(***************************************************************************)
(* outfit_generator.py: the prompt builders.  A prompt is the sequence of   *)
(* its fixed texts and of the values formatted into them.                  *)
(***************************************************************************)
\* the profile keys that the builders read
PromptKeys == {"gender", "body_shape", "skin_tone", "height", "country"}

\* a profile holds a key with None, with "" or with a text, or not at all
ProfileVals == {PyNone, "", "a"}
Profiles == UNION {[K -> ProfileVals] : K \in SUBSET PromptKeys}

\* f"{v}": None is formatted as the text None
Str(v) == IF v = PyNone THEN "None" ELSE v

\* v or default
PyOr(v, default) == IF Falsy(v) THEN default ELSE v

\* the fixed texts after which a prompt names the country
CountryLabels == {"based in", "culturally appropriate for", "Country/Culture:",
                  "skin in", "A well-groomed", "cultural"}

\* lines 149-227
build_outfit_prompt(profile) ==
  LET gender == Get(profile, "gender", "male")
      body_shape == Get(profile, "body_shape", "")
      skin_tone == Get(profile, "skin_tone", "")
      height == Get(profile, "height", "")
      country == Get(profile, "country", "")
  IN  <<"outfit recommendations for a", Str(gender),
        "based in", Str(PyOr(country, "Pakistan")),
        "culturally appropriate for", Str(PyOr(country, "Pakistan")),
        "Gender:", Str(gender),
        "Body Shape:", Str(PyOr(body_shape, "Not specified")),
        "Skin Tone:", Str(PyOr(skin_tone, "Not specified")),
        "Height:", Str(PyOr(height, "Not specified")),
        "Country/Culture:", Str(PyOr(country, "Pakistan")),
        "why this works for a", Str(body_shape), Str(gender),
        "with", Str(skin_tone),
        "skin in", Str(country)>>

\* lines 236-297, for an outfit without sections
build_image_prompt(profile) ==
  LET gender == Get(profile, "gender", "male")
      body_shape == Get(profile, "body_shape", "")
      skin_tone == Get(profile, "skin_tone", "")
      country == Get(profile, "country", "Pakistan")
  IN  <<"A well-groomed", Str(country), Str(gender)>>
      \o (IF Falsy(body_shape) THEN <<>> ELSE <<"with", Str(body_shape), "build">>)
      \o (IF Falsy(skin_tone) THEN <<>> ELSE <<"and", Str(skin_tone), "skin tone">>)
      \o <<"cultural", Str(country), "fashion">>

(***************************************************************************)
(* SpecPrompt: both prompt builders on every enumerated profile            *)
(***************************************************************************)
InitPrompt ==
  /\ user_profile \in Profiles
  /\ outfit_prompt = <<>> /\ image_prompt = <<>> /\ promptDone = {}
  /\ FenceIdle
  /\ NormIdle
  /\ AppIdle

\* outfit_generator.py 47-55: the prompt sent to the chat model
BuildOutfitPrompt ==
  /\ "outfit" \notin promptDone
  /\ outfit_prompt' = build_outfit_prompt(user_profile)
  /\ promptDone' = promptDone \cup {"outfit"}
  /\ UNCHANGED <<user_profile, image_prompt, fenceVars, normVars, appVars>>

\* outfit_generator.py 125: the full_text_prompt of a returned outfit
BuildImagePrompt ==
  /\ "outfit" \in promptDone /\ "image" \notin promptDone
  /\ image_prompt' = build_image_prompt(user_profile)
  /\ promptDone' = promptDone \cup {"image"}
  /\ UNCHANGED <<user_profile, outfit_prompt, fenceVars, normVars, appVars>>

NextPrompt == BuildOutfitPrompt \/ BuildImagePrompt
SpecPrompt == InitPrompt /\ [][NextPrompt]_vars

(***************************************************************************)
(* Spec: the route handlers, one coroutine per request, interleaved at      *)
(* their awaits                                                            *)
(***************************************************************************)
FullInsights == [k \in StyleKeys |-> "a"]
PartialInsights == ("summary" :> "a" @@ "color_palette" :> "b")

\* replies of the chat model to the style-insights prompt
StyleSamples ==
  {Raises("raise_json"), Raises("raise"), Raises("none"),
   Replies(<<>>), Replies(<<GX>>),
   Replies(Wrap("fence_json", Render(FullInsights))),
   Replies(Render(PartialInsights))}

\* replies of the chat model to the outfit prompt
OutfitSamples ==
  {Raises("raise"), Raises("none"), Replies(<<GX>>),
   Replies(Wrap("fence_json", Render(("outfits" :> "looks")))),
   Replies(Render(EmptyObj)),
   Replies(Render(("outfits" :> "null"))),
   Replies(Render(("outfits" :> "looks"))),
   Replies(Render(("outfits" :> "looks_bare"))),
   Replies(Render(("outfits" :> "looks_bad")))}

\* clip_insights of a row as signup may have left it
SignupClips ==
  {ClipNone,
   ClipDict(ImageNormalized(("top_label" :> "a"))),
   ClipDict(ImageFallback("str(e)"))}

Init ==
  /\ FenceIdle
  /\ NormIdle
  /\ PromptIdle
  /\ AcctIdle
  /\ \E c \in SignupClips : users = [u \in RowIds |-> IF u = "u1" THEN Row(c) ELSE NoRow]
  /\ groqConfigured \in BOOLEAN
  /\ pc = [r \in Reqs |-> "idle"]
  /\ req = [r \in Reqs |-> [endpoint |-> "profile", user_id |-> "u1"]]
  /\ result = [r \in Reqs |-> StyleRaised("")]
  /\ user_data = [r \in Reqs |-> ClipNone]
  /\ resp = [r \in Reqs |-> NoResp]
  /\ calls = [r \in Reqs |-> 0]
  /\ reply = [r \in Reqs |-> NoReply]
  /\ writeLog = <<>>

\* the handler of r returns or raises: the response is sent
Finish(r, response) ==
  /\ pc' = [pc EXCEPT ![r] = "done"]
  /\ resp' = [resp EXCEPT ![r] = response]

\* a request arrives and is routed to its handler
Receive(r) ==
  /\ pc[r] = "idle"
  /\ \E e \in Endpoints, u \in UserIds :
       req' = [req EXCEPT ![r] = [endpoint |-> e, user_id |-> u]]
  /\ pc' = [pc EXCEPT ![r] = "lookup"]
  /\ UNCHANGED <<users, groqConfigured, result, user_data, resp, calls, reply, writeLog, pureVars, acctVars, wardVars>>

\* user.pop(key, None): the key has left the dict; a column that is absent
\* from a body is held as the empty sequence, which no hash equals
Pop(user, key) ==
  IF key = "password_hash" THEN [user EXCEPT !.password_hash = <<>>] ELSE user

\* variant: the stored style insights are left out of the profile
get_profile_plain(r) ==
  /\ pc[r] = "lookup" /\ req[r].endpoint = "profile"
  /\ \E db \in {"ok", "raise"} :
       LET user == get_user_by_id(req[r].user_id)
       IN  IF db = "raise"
           THEN Finish(r, HTTPException(500, "Failed to fetch profile: database error"))
           ELSE IF ~user.exists
           THEN Finish(r, HTTPException(404, "User not found"))
           ELSE Finish(r, [NoResp EXCEPT !.status = 200,
                                         !.data = Pop(user, "password_hash")])
  /\ UNCHANGED <<users, groqConfigured, req, result, user_data, calls, reply, writeLog, pureVars, acctVars, wardVars>>

\* auth.py 160-191: get_profile
get_profile(r) ==
  /\ pc[r] = "lookup" /\ req[r].endpoint = "profile"
  /\ \E db \in {"ok", "raise"} :
       LET user == get_user_by_id(req[r].user_id)
           clip == user.clip_insights
       IN  IF db = "raise"
           THEN Finish(r, HTTPException(500, "Failed to fetch profile: database error"))
           ELSE IF ~user.exists
           THEN Finish(r, HTTPException(404, "User not found"))
           ELSE IF ~clip.isNone /\ clip.hasPsi
           THEN Finish(r, [NoResp EXCEPT !.status = 200, !.hasInsights = TRUE,
                                         !.insights = clip.psi,
                                         !.data = Pop(user, "password_hash")])
           ELSE Finish(r, [NoResp EXCEPT !.status = 200,
                                         !.data = Pop(user, "password_hash")])
  /\ UNCHANGED <<users, groqConfigured, req, result, user_data, calls, reply, writeLog, pureVars, acctVars, wardVars>>

\* auth.py 350-356: get_style_insights up to the profile lookup
StyleLookup(r) ==
  /\ pc[r] = "lookup" /\ req[r].endpoint = "style"
  /\ \E db \in {"ok", "raise"} :
       IF db = "raise"
       THEN Finish(r, HTTPException(500, "Failed to generate style insights: database error"))
       ELSE IF ~get_user_by_id(req[r].user_id).exists
       THEN Finish(r, HTTPException(404, "User not found"))
       ELSE pc' = [pc EXCEPT ![r] = "provider"] /\ UNCHANGED resp
  /\ UNCHANGED <<users, groqConfigured, req, result, user_data, calls, reply, writeLog, pureVars, acctVars, wardVars>>

\* variant: the fallback of a failed generation is persisted like a result
StyleProviderPersistsFallback(r) ==
  /\ pc[r] = "provider" /\ req[r].endpoint = "style"
  /\ calls' = [calls EXCEPT ![r] = @ + 1]
  /\ \E o \in StyleSamples :
       LET res == generate_style_insights(o)
       IN  /\ reply' = [reply EXCEPT ![r] = o]
           /\ result' = [result EXCEPT ![r] = res]
           /\ IF res.raised
              THEN Finish(r, HTTPException(500, "Failed to generate style insights: UnboundLocalError"))
              ELSE pc' = [pc EXCEPT ![r] = "reread"] /\ UNCHANGED resp
  /\ UNCHANGED <<users, groqConfigured, req, user_data, writeLog, pureVars, acctVars, wardVars>>

\* auth.py 361-363 and 391-409: the provider call and the branch on its result
StyleProvider(r) ==
  /\ pc[r] = "provider" /\ req[r].endpoint = "style"
  /\ calls' = [calls EXCEPT ![r] = @ + 1]
  /\ \E o \in StyleSamples :
       LET res == generate_style_insights(o)
       IN  /\ reply' = [reply EXCEPT ![r] = o]
           /\ result' = [result EXCEPT ![r] = res]
           /\ IF res.raised
              THEN Finish(r, HTTPException(500, "Failed to generate style insights: UnboundLocalError"))
              ELSE IF ~res.success
              THEN Finish(r, InsightsResponse(500, "false", res.insights))
              ELSE pc' = [pc EXCEPT ![r] = "reread"] /\ UNCHANGED resp
  /\ UNCHANGED <<users, groqConfigured, req, user_data, writeLog, pureVars, acctVars, wardVars>>

\* auth.py 367-373: the row is read again; a missing client or an exception
\* skips the write (384-385) and the handler answers as if it had been made
StyleReread(r) ==
  /\ pc[r] = "reread"
  /\ \E db \in {"ok", "no_client", "raise"} :
       LET row == get_user_by_id(req[r].user_id)
       IN  IF db = "ok" /\ row.exists
           THEN /\ user_data' = [user_data EXCEPT ![r] = row.clip_insights]
                /\ pc' = [pc EXCEPT ![r] = "write"]
                /\ UNCHANGED resp
           ELSE /\ Finish(r, InsightsResponse(200, "true", result[r].insights))
                /\ UNCHANGED user_data
  /\ UNCHANGED <<users, groqConfigured, req, result, calls, reply, writeLog, pureVars, acctVars, wardVars>>

\* auth.py 373-390: the blob read before is extended and written back, then
\* the response is built; no await separates the update from the return
StyleWrite(r) ==
  /\ pc[r] = "write"
  /\ \E db \in {"ok", "raise"} :
       LET current_clip_insights ==
             SetPersisted(OrEmptyDict(user_data[r]), result[r].insights)
       IN  IF db = "ok"
           THEN /\ users' = UpdateClipInsights(req[r].user_id, current_clip_insights)
                /\ writeLog' = Append(writeLog, r)
           ELSE UNCHANGED <<users, writeLog>>
  /\ Finish(r, InsightsResponse(200, "true", result[r].insights))
  /\ UNCHANGED <<groqConfigured, req, result, user_data, calls, reply, pureVars, acctVars, wardVars>>

\* wardrobe.py 268-283 and 320-324: the lookup of the outfit endpoint; its
\* HTTPException(404) is caught by the handler's own `except Exception`
OutfitLookup(r) ==
  /\ pc[r] = "lookup" /\ req[r].endpoint = "outfit"
  /\ \E db \in {"ok", "raise"} :
       IF db = "raise"
       THEN Finish(r, HTTPException(500, "500: Database Error: database error"))
       ELSE IF ~get_user_by_id(req[r].user_id).exists
       THEN Finish(r, HTTPException(500, "404: User not found"))
       ELSE pc' = [pc EXCEPT ![r] = "provider"] /\ UNCHANGED resp
  /\ UNCHANGED <<users, groqConfigured, req, result, user_data, calls, reply, writeLog, pureVars, acctVars, wardVars>>

\* variant: a failed generation is tried once more
OutfitProviderRetry(r) ==
  /\ pc[r] = "provider" /\ req[r].endpoint = "outfit"
  /\ \E o \in OutfitSamples :
       LET recommendations == generate_outfit_recommendations(groqConfigured, o)
       IN  /\ IF groqConfigured
              THEN /\ calls' = [calls EXCEPT ![r] = IF recommendations.raised THEN @ + 2
                                                    ELSE @ + 1]
                   /\ reply' = [reply EXCEPT ![r] = o]
              ELSE UNCHANGED <<calls, reply>>
           /\ IF recommendations.raised
              THEN Finish(r, HTTPException(500, "500: AI Service Error"))
              ELSE Finish(r, RecommendationsResponse(recommendations.outfits))
  /\ UNCHANGED <<users, groqConfigured, req, result, user_data, writeLog, pureVars, acctVars, wardVars>>

\* wardrobe.py 291-324: generation and response
OutfitProvider(r) ==
  /\ pc[r] = "provider" /\ req[r].endpoint = "outfit"
  /\ \E o \in OutfitSamples :
       LET recommendations == generate_outfit_recommendations(groqConfigured, o)
       IN  /\ IF groqConfigured
              THEN /\ calls' = [calls EXCEPT ![r] = @ + 1]
                   /\ reply' = [reply EXCEPT ![r] = o]
              ELSE UNCHANGED <<calls, reply>>
           /\ IF recommendations.raised
              THEN Finish(r, HTTPException(500, "500: AI Service Error"))
              ELSE Finish(r, RecommendationsResponse(recommendations.outfits))
  /\ UNCHANGED <<users, groqConfigured, req, result, user_data, writeLog, pureVars, acctVars, wardVars>>

Next ==
  \E r \in Reqs :
    \/ Receive(r)
    \/ get_profile(r)
    \/ StyleLookup(r)
    \/ StyleProvider(r)
    \/ StyleReread(r)
    \/ StyleWrite(r)
    \/ OutfitLookup(r)
    \/ OutfitProvider(r)

Spec == Init /\ [][Next]_vars


(***************************************************************************)
(* SpecAccounts: signup and login, one coroutine per request, interleaved   *)
(* at their awaits                                                         *)
(***************************************************************************)
Genders == {"male", "female", "other"}

\* a content type "type/subtype"
ContentType(type, subtype) == [type |-> type, subtype |-> subtype]

\* app.components.auth.utils.validate_image_type
AllowedImageTypes == {ContentType("image", s) : s \in {"jpeg", "png", "gif", "webp"}}
validate_image_type(content_type) == content_type \in AllowedImageTypes

MaxImageBytes == 5 * 1024 * 1024
Image(content_type, size) == [present |-> TRUE, content_type |-> content_type, size |-> size]
Png == Image(ContentType("image", "png"), 1024)
Pdf == Image(ContentType("application", "pdf"), 1024)

\* app.core.database.get_user_by_email: the ids of the rows holding the
\* email; the caller receives one of them, or a falsy value if there is none
get_user_by_email(email) == {u \in RowIds : users[u].exists /\ users[u].email = email}

\* the store hands out the first id of the pool that no row carries
FreshIds == {i \in DOMAIN IdPool : ~users[IdPool[i]].exists}
FreshId == IdPool[CHOOSE i \in FreshIds : \A j \in FreshIds : i <= j]

\* app.core.database.create_user: the row is inserted under a fresh id; the
\* store checks nothing
create_user(new_user) == [users EXCEPT ![FreshId] = new_user]

\* app.components.auth.utils.generate_unique_filename: a name no stored file has
UniqueFilename == Cardinality(storage) + 1

\* the forms sent to signup: name and gender are required, the other profile
\* fields are left out
SignupFields(gender) == [NoProfile EXCEPT !["name"] = "b", !["gender"] = gender]
SignupForm(email, password, gender, image) ==
  [NoForm EXCEPT !.email = email, !.password = password, !.image = image,
                 !.fields = SignupFields(gender)]
SignupForms ==
  {SignupForm(NewEmail, GoodPassword, "female", Png),
   SignupForm(NewEmail, GoodPassword, "female", Pdf),
   SignupForm(NewEmail, OtherPassword, "female", NoImage),
   SignupForm(FirstEmail, GoodPassword, "female", Png),
   SignupForm(NewEmail, ShortPassword, "female", Png),
   SignupForm(NewEmail, GoodPassword, "unknown", Png)}

LoginRequest(email, password) == [NoForm EXCEPT !.email = email, !.password = password]
LoginBodies ==
  {LoginRequest(e, GoodPassword) : e \in Emails}
  \cup {LoginRequest(FirstEmail, OtherPassword)}

\* replies of the vision model to the image-analysis prompt
ImageSamples == {Raises("raise"), Replies(Render(("top_label" :> "a")))}

\* JSONResponse(content=response_data, status_code=201)
SignupResponse(user_id, clip) ==
  [NoResp EXCEPT !.status = 201, !.message = "Signup successful",
                 !.body = ("user_id" :> user_id), !.clip_insights = clip]

\* the dict returned by login
LoginResponse(user_id, user) ==
  [NoResp EXCEPT !.status = 200, !.message = "Login successful",
                 !.body = ("user_id" :> user_id @@ "name" :> user.profile["name"]
                           @@ "email" :> user.email)]

InitAccounts ==
  /\ FenceIdle
  /\ NormIdle
  /\ PromptIdle
  /\ AcctIdle
  /\ users = [u \in RowIds |->
                IF u = "u1" THEN Row(ClipDict(ImageNormalized(("top_label" :> "a"))))
                ELSE NoRow]
  /\ groqConfigured = TRUE
  /\ pc = [r \in Reqs |-> "idle"]
  /\ req = [r \in Reqs |-> [endpoint |-> "profile", user_id |-> "u1"]]
  /\ result = [r \in Reqs |-> StyleRaised("")]
  /\ user_data = [r \in Reqs |-> ClipNone]
  /\ resp = [r \in Reqs |-> NoResp]
  /\ calls = [r \in Reqs |-> 0]
  /\ reply = [r \in Reqs |-> NoReply]
  /\ writeLog = <<>>

\* number of calls accepted in one run
MaxCalls == 3

\* r is the first slot in which no handler is running
FreeSlot(r) ==
  /\ pc[r] \in {"idle", "done"}
  /\ \A q \in Reqs : q < r => pc[q] \notin {"idle", "done"}

\* a call is accepted in slot r: the locals of its handler are fresh
Accept(r) ==
  /\ FreeSlot(r)
  /\ served' = served + 1
  /\ calls' = [calls EXCEPT ![r] = 0]
  /\ reply' = [reply EXCEPT ![r] = NoReply]
  /\ image_url' = [image_url EXCEPT ![r] = NoUrl]
  /\ clip_insights_data' = [clip_insights_data EXCEPT ![r] = ClipNone]
  /\ effects' = [effects EXCEPT ![r] = {}]

\* a signup or login request arrives
ReceiveAccount(r) ==
  /\ served < MaxCalls
  /\ Accept(r)
  /\ resp' = [resp EXCEPT ![r] = NoResp]
  /\ \/ \E f \in SignupForms :
          /\ form' = [form EXCEPT ![r] = f]
          /\ req' = [req EXCEPT ![r] = [endpoint |-> "signup", user_id |-> ""]]
          /\ pc' = [pc EXCEPT ![r] = "signup"]
     \/ \E f \in LoginBodies :
          /\ form' = [form EXCEPT ![r] = f]
          /\ req' = [req EXCEPT ![r] = [endpoint |-> "login", user_id |-> ""]]
          /\ pc' = [pc EXCEPT ![r] = "login"]
  /\ UNCHANGED <<users, groqConfigured, result, user_data, writeLog, storage, items,
                 call, pureVars>>

\* the handler of r performs a store operation
Effect(r, ops) == effects' = [effects EXCEPT ![r] = @ \cup ops]

\* auth.py 35-55 and 107-111: validation, then the lookup by email
SignupCheck(r) ==
  /\ pc[r] = "signup"
  /\ \E db \in {"ok", "raise"} :
       LET existing_user == get_user_by_email(form[r].email)
       IN  IF Len(form[r].password) < MinPasswordLen
           THEN /\ Finish(r, HTTPException(400, "Password must be at least 6 characters"))
                /\ UNCHANGED effects
           ELSE IF form[r].fields["gender"] \notin Genders
           THEN /\ Finish(r, HTTPException(400, "Gender must be 'male', 'female', or 'other'"))
                /\ UNCHANGED effects
           ELSE /\ Effect(r, {"db_read"})
                /\ IF db = "raise"
                   THEN Finish(r, HTTPException(500, "Signup failed: database error"))
                   ELSE IF existing_user # {}
                   THEN Finish(r, HTTPException(400, "User with this email already exists"))
                   ELSE /\ pc' = [pc EXCEPT ![r] =
                                    IF form[r].image.present THEN "signup_upload"
                                    ELSE "signup_create"]
                        /\ UNCHANGED resp
  /\ UNCHANGED <<users, groqConfigured, req, result, user_data, calls, reply, writeLog,
                 form, image_url, clip_insights_data, storage, wardVars, pureVars>>

\* variant: the content type is looked at only after the upload
SignupUploadThenValidate(r) ==
  /\ pc[r] = "signup_upload"
  /\ storage' = storage \cup {UniqueFilename}
  /\ image_url' = [image_url EXCEPT ![r] = PublicUrl(UniqueFilename)]
  /\ Effect(r, {"upload"})
  /\ IF ~validate_image_type(form[r].image.content_type)
     THEN Finish(r, HTTPException(400, "Invalid image type. Allowed: JPEG, PNG, GIF, WebP"))
     ELSE pc' = [pc EXCEPT ![r] = "signup_create"] /\ UNCHANGED resp
  /\ UNCHANGED <<users, groqConfigured, req, result, user_data, calls, reply, writeLog,
                 form, clip_insights_data, wardVars, pureVars>>

\* auth.py 56-77 and 107-111: the image is validated, uploaded and analysed
SignupUpload(r) ==
  /\ pc[r] = "signup_upload"
  /\ \E st \in {"ok", "raise"}, o \in ImageSamples :
       IF ~validate_image_type(form[r].image.content_type)
       THEN /\ Finish(r, HTTPException(400, "Invalid image type. Allowed: JPEG, PNG, GIF, WebP"))
            /\ UNCHANGED <<storage, image_url, clip_insights_data, calls, reply, effects>>
       ELSE IF st = "raise"
       THEN /\ Finish(r, HTTPException(500, "Signup failed: storage error"))
            /\ UNCHANGED <<storage, image_url, clip_insights_data, calls, reply, effects>>
       ELSE /\ storage' = storage \cup {UniqueFilename}
            /\ image_url' = [image_url EXCEPT ![r] = PublicUrl(UniqueFilename)]
            /\ calls' = [calls EXCEPT ![r] = @ + 1]
            /\ reply' = [reply EXCEPT ![r] = o]
            /\ clip_insights_data' =
                 [clip_insights_data EXCEPT ![r] = ClipDict(analyze_image(o))]
            /\ Effect(r, {"upload", "provider"})
            /\ pc' = [pc EXCEPT ![r] = "signup_create"]
            /\ UNCHANGED resp
  /\ UNCHANGED <<users, groqConfigured, req, result, user_data, writeLog,
                 form, wardVars, pureVars>>

\* auth.py 79-111: the row is inserted and the response built
SignupCreate(r) ==
  /\ pc[r] = "signup_create"
  /\ FreshIds # {}
  /\ \E db \in {"ok", "none", "raise"} :
       LET new_user ==
             [exists |-> TRUE, clip_insights |-> clip_insights_data[r],
              email |-> form[r].email,
              password_hash |-> hash_password(form[r].password),
              image_url |-> image_url[r], profile |-> form[r].fields]
       IN  CASE db = "ok" ->
                  /\ users' = create_user(new_user)
                  /\ Effect(r, {"db_insert"})
                  /\ Finish(r, SignupResponse(FreshId, clip_insights_data[r]))
             [] db = "none" ->
                  /\ Finish(r, HTTPException(500, "Failed to create user"))
                  /\ UNCHANGED <<users, effects>>
             [] db = "raise" ->
                  /\ Finish(r, HTTPException(500, "Signup failed: database error"))
                  /\ UNCHANGED <<users, effects>>
  /\ UNCHANGED <<groqConfigured, req, result, user_data, calls, reply, writeLog,
                 form, image_url, clip_insights_data, storage, wardVars, pureVars>>

\* auth.py 113-150: login
login(r) ==
  /\ pc[r] = "login"
  /\ Effect(r, {"db_read"})
  /\ \E db \in {"ok", "raise"} :
       IF db = "raise"
       THEN Finish(r, HTTPException(500, "Login failed: database error"))
       ELSE IF get_user_by_email(form[r].email) = {}
       THEN Finish(r, HTTPException(401, "Invalid email or password"))
       ELSE \E id \in get_user_by_email(form[r].email) :
              LET user == users[id]
                  is_valid == verify_password(form[r].password, user.password_hash)
              IN  IF ~is_valid
                  THEN Finish(r, HTTPException(401, "Invalid email or password"))
                  ELSE Finish(r, LoginResponse(id, user))
  /\ UNCHANGED <<users, groqConfigured, req, result, user_data, calls, reply, writeLog,
                 form, image_url, clip_insights_data, storage, wardVars, pureVars>>

NextAccounts ==
  \E r \in Reqs :
    \/ ReceiveAccount(r)
    \/ SignupCheck(r)
    \/ SignupUpload(r)
    \/ SignupCreate(r)
    \/ login(r)

SpecAccounts == InitAccounts /\ [][NextAccounts]_vars


(***************************************************************************)
(* SpecApp: the whole application, calls routed by the route table and      *)
(* served one at a time                                                    *)
(***************************************************************************)
Route(method, path, handler) == [method |-> method, path |-> path, handler |-> handler]
IsParam(segment) == segment \in {"{user_id}", "{item_id}"}

\* routes/auth.py: the decorators of `router`
auth_router ==
  {Route("POST", <<"signup">>, "signup"),
   Route("POST", <<"login">>, "login"),
   Route("GET", <<"profile", "{user_id}">>, "get_profile"),
   Route("POST", <<"update-profile">>, "update_profile"),
   Route("POST", <<"update-profile-photo">>, "update_profile_photo"),
   Route("GET", <<"style-insights", "{user_id}">>, "get_style_insights")}

\* routes/wardrobe.py: the decorators of `router`
wardrobe_router ==
  {Route("POST", <<"upload">>, "upload_wardrobe_item"),
   Route("GET", <<"items", "{user_id}">>, "get_wardrobe_items"),
   Route("DELETE", <<"items", "{item_id}">>, "delete_wardrobe_item_endpoint"),
   Route("PATCH", <<"items", "{item_id}">>, "update_wardrobe_item_endpoint"),
   Route("POST", <<"recategorize", "{user_id}">>, "recategorize_all_items"),
   Route("POST", <<"generate-looks">>, "generate_outfit_looks"),
   Route("POST", <<"generate-outfit-recommendations">>,
         "generate_outfit_recommendations_endpoint")}

\* FastAPI.include_router(router, prefix=...)
include_router(router, prefix) == {[rt EXCEPT !.path = prefix \o @] : rt \in router}

\* main.py 39-52: the route table of `app`
RouteTable ==
  include_router(auth_router, <<"auth">>)
  \cup include_router(wardrobe_router, <<>>)
  \cup {Route("GET", <<>>, "root"), Route("GET", <<"health">>, "health_check")}

\* the path matches the template of the route
PathMatches(rt, path) ==
  /\ Len(rt.path) = Len(path)
  /\ \A i \in DOMAIN path : IsParam(rt.path[i]) \/ rt.path[i] = path[i]

\* the routes that serve the call
Resolve(method, path) ==
  {rt \in RouteTable : rt.method = method /\ PathMatches(rt, path)}

\* the value of the path parameter `name`, or "" if the template has none
PathParam(rt, path, name) ==
  IF \E i \in DOMAIN rt.path : rt.path[i] = name
  THEN path[CHOOSE i \in DOMAIN rt.path : rt.path[i] = name]
  ELSE ""

\* the endpoint names of the handlers modelled in Spec
EndpointOf(handler) ==
  CASE handler = "get_profile" -> "profile"
    [] handler = "get_style_insights" -> "style"
    [] handler = "generate_outfit_recommendations_endpoint" -> "outfit"
    [] OTHER -> handler

\* the first position of a handler
Entry(endpoint) == IF endpoint \in Endpoints THEN "lookup" ELSE endpoint

\* the framework's own answers to a call no route serves
NotFound == [NoResp EXCEPT !.status = 404, !.detail = "Not Found"]
MethodNotAllowed == [NoResp EXCEPT !.status = 405, !.detail = "Method Not Allowed"]

\* number of calls accepted in one run of the application
MaxAppCalls == 2

(***************************************************************************)
(* update_profile and update_profile_photo                                 *)
(***************************************************************************)
\* the optional form fields of update_profile: left out, empty, or a value
UpdateFields ==
  {NoProfile,
   [f \in ProfileFields |-> ""],
   [NoProfile EXCEPT !["name"] = "b"],
   [NoProfile EXCEPT !["gender"] = "", !["country"] = "b", !["height"] = "b"],
   [f \in ProfileFields |-> "b"]}

\* lines 223-229: the fields that go into `updates`
updates(fields) == {f \in ProfileFields : ~Falsy(fields[f])}

\* supabase.table("users").update(updates).eq("id", user_id).execute()
UpdateProfile(user_id, fields) ==
  IF get_user_by_id(user_id).exists
  THEN [users EXCEPT ![user_id].profile =
          [f \in ProfileFields |-> IF f \in updates(fields) THEN fields[f] ELSE @[f]]]
  ELSE users

\* auth.py 212-233 and 255-261: update_profile up to the decision to write
UpdateLookup(r) ==
  /\ pc[r] = "update_profile"
  /\ \E db \in {"ok", "raise"} :
       LET user_id == req[r].user_id
       IN  IF user_id = "" \/ user_id \in {"null", "undefined"}
           THEN /\ Finish(r, HTTPException(400, "Invalid user_id provided"))
                /\ UNCHANGED effects
           ELSE /\ Effect(r, {"db_read"})
                /\ IF db = "raise"
                   THEN Finish(r, HTTPException(500, "Failed to update profile: database error"))
                   ELSE IF ~get_user_by_id(user_id).exists
                   THEN Finish(r, HTTPException(404, "User with ID {user_id} not found"))
                   ELSE IF updates(form[r].fields) = {}
                   THEN Finish(r, [NoResp EXCEPT !.status = 200,
                                                 !.message = "No changes to update"])
                   ELSE pc' = [pc EXCEPT ![r] = "update_write"] /\ UNCHANGED resp
  /\ UNCHANGED <<users, groqConfigured, req, result, user_data, calls, reply, writeLog,
                 form, image_url, clip_insights_data, storage, wardVars, pureVars>>

\* variant: every supplied field is written, the empty ones included
UpdateWriteAll(r) ==
  /\ pc[r] = "update_write"
  /\ users' = [users EXCEPT ![req[r].user_id].profile =
                 [f \in ProfileFields |->
                    IF form[r].fields[f] # PyNone THEN form[r].fields[f] ELSE @[f]]]
  /\ Effect(r, {"db_update"})
  /\ Finish(r, [NoResp EXCEPT !.status = 200, !.success = "true",
                              !.message = "Profile updated successfully",
                              !.data = users'[req[r].user_id]])
  /\ UNCHANGED <<groqConfigured, req, result, user_data, calls, reply, writeLog,
                 form, image_url, clip_insights_data, storage, wardVars, pureVars>>

\* auth.py 235-261: the update and the response
UpdateWrite(r) ==
  /\ pc[r] = "update_write"
  /\ \E db \in {"ok", "no_client", "raise"} :
       CASE db = "no_client" ->
              /\ Finish(r, HTTPException(500, "Database client not initialized"))
              /\ UNCHANGED <<users, effects>>
         [] db = "raise" ->
              /\ Finish(r, HTTPException(500, "Failed to update profile: database error"))
              /\ UNCHANGED <<users, effects>>
         [] db = "ok" ->
              /\ users' = UpdateProfile(req[r].user_id, form[r].fields)
              /\ Effect(r, {"db_update"})
              /\ IF ~get_user_by_id(req[r].user_id).exists
                 THEN Finish(r, HTTPException(500,
                        "Database update failed - no record was modified"))
                 ELSE Finish(r, [NoResp EXCEPT !.status = 200, !.success = "true",
                                               !.message = "Profile updated successfully",
                                               !.data = users'[req[r].user_id]])
  /\ UNCHANGED <<groqConfigured, req, result, user_data, calls, reply, writeLog,
                 form, image_url, clip_insights_data, storage, wardVars, pureVars>>

\* variant: the file is stored before its type and size are looked at
PhotoLookupAfterUpload(r) ==
  /\ pc[r] = "update_profile_photo"
  /\ Effect(r, {"db_read", "upload"})
  /\ storage' = storage \cup {UniqueFilename}
  /\ image_url' = [image_url EXCEPT ![r] = PublicUrl(UniqueFilename)]
  /\ IF ~get_user_by_id(req[r].user_id).exists
     THEN Finish(r, HTTPException(404, "User not found"))
     ELSE IF ~validate_image_type(form[r].image.content_type)
     THEN Finish(r, HTTPException(400, "Invalid image type. Allowed: JPEG, PNG, GIF, WebP"))
     ELSE IF form[r].image.size > MaxImageBytes
     THEN Finish(r, HTTPException(400, "Image size must be less than 5MB"))
     ELSE pc' = [pc EXCEPT ![r] = "photo_write"] /\ UNCHANGED resp
  /\ UNCHANGED <<users, groqConfigured, req, result, user_data, calls, reply, writeLog,
                 form, clip_insights_data, wardVars, pureVars>>

\* auth.py 283-304 and 327-333: update_profile_photo up to the upload
PhotoLookup(r) ==
  /\ pc[r] = "update_profile_photo"
  /\ Effect(r, {"db_read"})
  /\ \E db \in {"ok", "raise"} :
       IF db = "raise"
       THEN Finish(r, HTTPException(500, "Failed to update profile photo: database error"))
       ELSE IF ~get_user_by_id(req[r].user_id).exists
       THEN Finish(r, HTTPException(404, "User not found"))
       ELSE IF ~validate_image_type(form[r].image.content_type)
       THEN Finish(r, HTTPException(400, "Invalid image type. Allowed: JPEG, PNG, GIF, WebP"))
       ELSE IF form[r].image.size > MaxImageBytes
       THEN Finish(r, HTTPException(400, "Image size must be less than 5MB"))
       ELSE pc' = [pc EXCEPT ![r] = "photo_upload"] /\ UNCHANGED resp
  /\ UNCHANGED <<users, groqConfigured, req, result, user_data, calls, reply, writeLog,
                 form, image_url, clip_insights_data, storage, wardVars, pureVars>>

\* auth.py 306-314: the upload
PhotoUpload(r) ==
  /\ pc[r] = "photo_upload"
  /\ \E st \in {"ok", "raise"} :
       IF st = "raise"
       THEN /\ Finish(r, HTTPException(500, "Failed to update profile photo: storage error"))
            /\ UNCHANGED <<storage, image_url, effects>>
       ELSE /\ storage' = storage \cup {UniqueFilename}
            /\ image_url' = [image_url EXCEPT ![r] = PublicUrl(UniqueFilename)]
            /\ Effect(r, {"upload"})
            /\ pc' = [pc EXCEPT ![r] = "photo_write"]
            /\ UNCHANGED resp
  /\ UNCHANGED <<users, groqConfigured, req, result, user_data, calls, reply, writeLog,
                 form, clip_insights_data, wardVars, pureVars>>

\* auth.py 316-333: the update of image_url and the response
PhotoWrite(r) ==
  /\ pc[r] = "photo_write"
  /\ \E db \in {"ok", "raise"} :
       IF db = "raise"
       THEN /\ Finish(r, HTTPException(500, "Failed to update profile photo: database error"))
            /\ UNCHANGED <<users, effects>>
       ELSE /\ users' = IF get_user_by_id(req[r].user_id).exists
                        THEN [users EXCEPT ![req[r].user_id].image_url = image_url[r]]
                        ELSE users
            /\ Effect(r, {"db_update"})
            /\ Finish(r, [NoResp EXCEPT !.status = 200, !.success = "true",
                                        !.message = "Profile photo updated successfully",
                                        !.image_url = image_url[r]])
  /\ UNCHANGED <<groqConfigured, req, result, user_data, calls, reply, writeLog,
                 form, image_url, clip_insights_data, storage, wardVars, pureVars>>

(***************************************************************************)
(* The wardrobe handlers                                                   *)
(***************************************************************************)
\* ids of the items that upload may create, in the order the store hands them out
ItemPool == <<"i1", "i2", "i3", "i4">>

\* a row of wardrobe_items
Item(id, user_id, image) ==
  [id |-> id, user_id |-> user_id, name |-> "New Item", category |-> "Uncategorized",
   tags |-> <<"uploaded">>, image_url |-> image, updated |-> FALSE]

\* the item stored before the first call
FirstItem == Item("i0", "u1", PublicUrl(0))

FreshItemIds == {i \in DOMAIN ItemPool : \A it \in items : it.id # ItemPool[i]}
FreshItemId == ItemPool[CHOOSE i \in FreshItemIds : \A j \in FreshItemIds : i <= j]

\* app.core.database.create_wardrobe_item
create_wardrobe_item(item_data) == items \cup {item_data}

\* app.core.database.get_user_wardrobe
get_user_wardrobe(user_id) == {it \in items : it.user_id = user_id}

\* the items that the filter on item id and owner selects
OwnedItem(item_id, user_id) == {it \in items : it.id = item_id /\ it.user_id = user_id}

\* app.core.database.delete_wardrobe_item
delete_wardrobe_item(item_id, user_id) == items \ OwnedItem(item_id, user_id)

\* tags.split(",")
Split(tags) == IF tags = "a,b" THEN <<"a", "b">> ELSE <<tags>>

\* wardrobe.py 146-155: the changes applied to one item
UpdatedItem(it, f) ==
  [it EXCEPT !.name = IF Falsy(f["name"]) THEN @ ELSE f["name"],
             !.category = IF Falsy(f["category"]) THEN @ ELSE f["category"],
             !.tags = IF Falsy(f["tags"]) THEN @ ELSE Split(f["tags"]),
             !.updated = TRUE]

\* app.core.database.update_wardrobe_item
update_wardrobe_item(item_id, user_id, f) ==
  (items \ OwnedItem(item_id, user_id))
  \cup {UpdatedItem(it, f) : it \in OwnedItem(item_id, user_id)}

ItemUpdates ==
  {NoItemFields, [NoItemFields EXCEPT !["name"] = "b", !["tags"] = "a,b"]}

\* wardrobe.py 37-54 and 85-89: validation and upload of the file
upload_wardrobe_item(r) ==
  /\ pc[r] = "upload_wardrobe_item"
  /\ \E st \in {"ok", "raise"} :
       IF form[r].image.content_type.type # "image"
       THEN /\ Finish(r, HTTPException(400, "File must be an image"))
            /\ UNCHANGED <<storage, image_url, effects>>
       ELSE IF st = "raise"
       THEN /\ Finish(r, HTTPException(500, "Upload failed: storage error"))
            /\ UNCHANGED <<storage, image_url, effects>>
       ELSE /\ storage' = storage \cup {UniqueFilename}
            /\ image_url' = [image_url EXCEPT ![r] = PublicUrl(UniqueFilename)]
            /\ Effect(r, {"upload"})
            /\ pc' = [pc EXCEPT ![r] = "wardrobe_create"]
            /\ UNCHANGED resp
  /\ UNCHANGED <<users, groqConfigured, req, result, user_data, calls, reply, writeLog,
                 form, clip_insights_data, wardVars, pureVars>>

\* wardrobe.py 56-89: the item is inserted
WardrobeCreate(r) ==
  /\ pc[r] = "wardrobe_create"
  /\ FreshItemIds # {}
  /\ \E db \in {"ok", "none", "raise"} :
       CASE db = "ok" ->
              /\ items' = create_wardrobe_item(
                            Item(FreshItemId, req[r].user_id, image_url[r]))
              /\ Effect(r, {"db_insert"})
              /\ Finish(r, [NoResp EXCEPT !.status = 201, !.success = "true",
                                          !.message = "Item uploaded successfully!",
                                          !.body = ("item" :> FreshItemId)])
         [] db = "none" ->
              /\ Finish(r, HTTPException(500, "Failed to create wardrobe item"))
              /\ UNCHANGED <<items, effects>>
         [] db = "raise" ->
              /\ Finish(r, HTTPException(500, "Upload failed: database error"))
              /\ UNCHANGED <<items, effects>>
  /\ UNCHANGED <<users, groqConfigured, req, result, user_data, calls, reply, writeLog,
                 form, image_url, clip_insights_data, storage, served, call, pureVars>>

\* wardrobe.py 92-108
get_wardrobe_items(r) ==
  /\ pc[r] = "get_wardrobe_items"
  /\ Effect(r, {"db_read"})
  /\ \E db \in {"ok", "raise"} :
       IF db = "raise"
       THEN Finish(r, HTTPException(500, "Failed to fetch wardrobe: database error"))
       ELSE Finish(r, [NoResp EXCEPT !.status = 200, !.success = "true",
                                     !.count = Cardinality(get_user_wardrobe(req[r].user_id))])
  /\ UNCHANGED <<users, groqConfigured, req, result, user_data, calls, reply, writeLog,
                 form, image_url, clip_insights_data, storage, wardVars, pureVars>>

\* variant: the owner of the deleted item is deleted with it
delete_wardrobe_item_cascade(r) ==
  /\ pc[r] = "delete_wardrobe_item_endpoint"
  /\ Effect(r, {"db_delete"})
  /\ items' = delete_wardrobe_item(form[r].item_id, req[r].user_id)
  /\ users' = IF OwnedItem(form[r].item_id, req[r].user_id) # {}
              THEN [users EXCEPT ![req[r].user_id] = NoRow] ELSE users
  /\ Finish(r, [NoResp EXCEPT !.status = 200, !.success = "true",
                              !.message = "Item deleted successfully"])
  /\ UNCHANGED <<groqConfigured, req, result, user_data, calls, reply, writeLog,
                 form, image_url, clip_insights_data, storage, served, call, pureVars>>

\* wardrobe.py 111-131
delete_wardrobe_item_endpoint(r) ==
  /\ pc[r] = "delete_wardrobe_item_endpoint"
  /\ \E db \in {"ok", "raise"} :
       IF db = "raise"
       THEN /\ Finish(r, HTTPException(500, "Failed to delete item: database error"))
            /\ UNCHANGED <<items, effects>>
       ELSE /\ items' = delete_wardrobe_item(form[r].item_id, req[r].user_id)
            /\ Effect(r, {"db_delete"})
            /\ IF OwnedItem(form[r].item_id, req[r].user_id) # {}
               THEN Finish(r, [NoResp EXCEPT !.status = 200, !.success = "true",
                                             !.message = "Item deleted successfully"])
               ELSE Finish(r, HTTPException(404, "Item not found"))
  /\ UNCHANGED <<users, groqConfigured, req, result, user_data, calls, reply, writeLog,
                 form, image_url, clip_insights_data, storage, served, call, pureVars>>

\* wardrobe.py 134-172
update_wardrobe_item_endpoint(r) ==
  /\ pc[r] = "update_wardrobe_item_endpoint"
  /\ \E db \in {"ok", "raise"} :
       IF db = "raise"
       THEN /\ Finish(r, HTTPException(500, "Failed to update item: database error"))
            /\ UNCHANGED <<items, effects>>
       ELSE /\ items' = update_wardrobe_item(form[r].item_id, req[r].user_id, form[r].item)
            /\ Effect(r, {"db_update"})
            /\ IF OwnedItem(form[r].item_id, req[r].user_id) # {}
               THEN Finish(r, [NoResp EXCEPT !.status = 200, !.success = "true",
                                             !.message = "Item updated successfully",
                                             !.body = ("item" :> form[r].item_id)])
               ELSE Finish(r, HTTPException(404, "Item not found"))
  /\ UNCHANGED <<users, groqConfigured, req, result, user_data, calls, reply, writeLog,
                 form, image_url, clip_insights_data, storage, served, call, pureVars>>

\* the body of a stub endpoint
Disabled(message) == [NoResp EXCEPT !.status = 200, !.success = "false", !.message = message]

\* variant: the user is looked up first and an unknown user is answered 404
recategorize_known_users(r) ==
  /\ pc[r] = "recategorize_all_items"
  /\ Effect(r, {"db_read"})
  /\ IF get_user_by_id(req[r].user_id).exists
     THEN Finish(r, Disabled("AI Auto-categorization is disabled in this deployment."))
     ELSE Finish(r, HTTPException(404, "User not found"))
  /\ UNCHANGED <<users, groqConfigured, req, result, user_data, calls, reply, writeLog,
                 form, image_url, clip_insights_data, storage, wardVars, pureVars>>

\* wardrobe.py 175-183
recategorize_all_items(r) ==
  /\ pc[r] = "recategorize_all_items"
  /\ Finish(r, Disabled("AI Auto-categorization is disabled in this deployment."))
  /\ UNCHANGED <<users, groqConfigured, req, result, user_data, calls, reply, writeLog,
                 acctVars, wardVars, pureVars>>

\* wardrobe.py 228-240
generate_outfit_looks(r) ==
  /\ pc[r] = "generate_outfit_looks"
  /\ Finish(r, Disabled("AI Virtual Try-On is coming soon (Disabled for optimization)."))
  /\ UNCHANGED <<users, groqConfigured, req, result, user_data, calls, reply, writeLog,
                 acctVars, wardVars, pureVars>>

\* main.py 42-48
root(r) ==
  /\ pc[r] = "root"
  /\ Finish(r, [NoResp EXCEPT !.status = 200, !.message = "Welcome to LibaasAI API",
                              !.body = ("docs" :> "/docs" @@ "health" :> "ok")])
  /\ UNCHANGED <<users, groqConfigured, req, result, user_data, calls, reply, writeLog,
                 acctVars, wardVars, pureVars>>

\* main.py 50-52
health_check(r) ==
  /\ pc[r] = "health_check"
  /\ Finish(r, [NoResp EXCEPT !.status = 200,
                              !.body = ("status" :> "healthy"
                                        @@ "service" :> "libaas-ai-backend")])
  /\ UNCHANGED <<users, groqConfigured, req, result, user_data, calls, reply, writeLog,
                 acctVars, wardVars, pureVars>>

(***************************************************************************)
(* The calls sent to the application                                       *)
(***************************************************************************)
AppCall(method, path, user_id, f) ==
  [method |-> method, path |-> path, user_id |-> user_id, form |-> f]

BigPng == Image(ContentType("image", "png"), MaxImageBytes + 1)
LimitPng == Image(ContentType("image", "png"), MaxImageBytes)

AuthCalls ==
  {AppCall("GET", <<"auth", "profile", u>>, "", NoForm) : u \in UserIds}
  \cup {AppCall("GET", <<"auth", "style-insights", u>>, "", NoForm) : u \in UserIds}
  \cup {AppCall("POST", <<"auth", "signup">>, "", f) : f \in SignupForms}
  \cup {AppCall("POST", <<"auth", "login">>, "", f) : f \in LoginBodies}
  \cup {AppCall("POST", <<"auth", "update-profile">>, "u1", [NoForm EXCEPT !.fields = f]) :
          f \in UpdateFields}
  \cup {AppCall("POST", <<"auth", "update-profile">>, u,
                [NoForm EXCEPT !.fields = [f \in ProfileFields |-> "b"]]) :
          u \in {"u2", "n1", "", "null", "undefined"}}
  \cup {AppCall("POST", <<"auth", "update-profile-photo">>, "u1", [NoForm EXCEPT !.image = i]) :
          i \in {Png, Pdf, BigPng, LimitPng}}
  \cup {AppCall("POST", <<"auth", "update-profile-photo">>, u, [NoForm EXCEPT !.image = Png]) :
          u \in {"u2", "n1", "null"}}
  \cup {AppCall("GET", <<"auth", "signup">>, "", NoForm)}

WardrobeCalls(prefix) ==
  {AppCall("POST", prefix \o <<"upload">>, "u1", [NoForm EXCEPT !.image = i]) :
     i \in {Png, Pdf}}
  \cup {AppCall("GET", prefix \o <<"items", "u1">>, "", NoForm)}
  \cup {AppCall("DELETE", prefix \o <<"items", i>>, "u1", NoForm) : i \in {"i0", "i9"}}
  \cup {AppCall("PATCH", prefix \o <<"items", "i0">>, "u1", [NoForm EXCEPT !.item = f]) :
          f \in ItemUpdates}
  \cup {AppCall("PATCH", prefix \o <<"items", "i9">>, "u1", NoForm)}
  \cup {AppCall("POST", prefix \o <<"recategorize", u>>, "", NoForm) : u \in UserIds}
  \cup {AppCall("POST", prefix \o <<"generate-looks">>, u, NoForm) : u \in UserIds}
  \cup {AppCall("POST", prefix \o <<"generate-outfit-recommendations">>, u, NoForm) :
          u \in UserIds}

AppCalls ==
  AuthCalls \cup WardrobeCalls(<<>>) \cup WardrobeCalls(<<"wardrobe">>)
  \cup {AppCall("GET", <<>>, "", NoForm), AppCall("GET", <<"health">>, "", NoForm)}

InitApp ==
  /\ FenceIdle
  /\ NormIdle
  /\ PromptIdle
  /\ form = [r \in Reqs |-> NoForm]
  /\ image_url = [r \in Reqs |-> NoUrl]
  /\ clip_insights_data = [r \in Reqs |-> ClipNone]
  /\ storage = {0}
  /\ effects = [r \in Reqs |-> {}]
  /\ items = {FirstItem}
  /\ served = 0
  /\ call = [r \in Reqs |-> NoCall]
  /\ users = [u \in RowIds |->
                IF u = "u1" THEN Row(ClipDict(ImageNormalized(("top_label" :> "a"))))
                ELSE NoRow]
  /\ groqConfigured \in BOOLEAN
  /\ pc = [r \in Reqs |-> "idle"]
  /\ req = [r \in Reqs |-> [endpoint |-> "profile", user_id |-> "u1"]]
  /\ result = [r \in Reqs |-> StyleRaised("")]
  /\ user_data = [r \in Reqs |-> ClipNone]
  /\ resp = [r \in Reqs |-> NoResp]
  /\ calls = [r \in Reqs |-> 0]
  /\ reply = [r \in Reqs |-> NoReply]
  /\ writeLog = <<>>

\* a call arrives while no handler is running and is routed to its handler
ReceiveApp(r) ==
  /\ served < MaxAppCalls
  /\ \A q \in Reqs : pc[q] \in {"idle", "done"}
  /\ Accept(r)
  /\ \E c \in AppCalls :
       LET served_by == Resolve(c.method, c.path)
           rt == CHOOSE x \in served_by : TRUE
           endpoint == IF served_by = {} THEN "none" ELSE EndpointOf(rt.handler)
           user_id == IF served_by # {} /\ PathParam(rt, c.path, "{user_id}") # ""
                      THEN PathParam(rt, c.path, "{user_id}") ELSE c.user_id
           item_id == IF served_by = {} THEN "" ELSE PathParam(rt, c.path, "{item_id}")
       IN  /\ call' = [call EXCEPT ![r] = [method |-> c.method, path |-> c.path]]
           /\ form' = [form EXCEPT ![r] = [c.form EXCEPT !.item_id = item_id]]
           /\ req' = [req EXCEPT ![r] = [endpoint |-> endpoint, user_id |-> user_id]]
           /\ pc' = [pc EXCEPT ![r] = IF served_by = {} THEN "done" ELSE Entry(endpoint)]
           /\ resp' = [resp EXCEPT ![r] =
                         IF served_by # {} THEN NoResp
                         ELSE IF \E x \in RouteTable : PathMatches(x, c.path)
                         THEN MethodNotAllowed ELSE NotFound]
  /\ result' = [result EXCEPT ![r] = StyleRaised("")]
  /\ user_data' = [user_data EXCEPT ![r] = ClipNone]
  /\ UNCHANGED <<users, groqConfigured, writeLog, storage, items, pureVars>>

NextApp ==
  \E r \in Reqs :
    \/ ReceiveApp(r)
    \/ get_profile(r)
    \/ StyleLookup(r)
    \/ StyleProvider(r)
    \/ StyleReread(r)
    \/ StyleWrite(r)
    \/ OutfitLookup(r)
    \/ OutfitProvider(r)
    \/ SignupCheck(r)
    \/ SignupUpload(r)
    \/ SignupCreate(r)
    \/ login(r)
    \/ UpdateLookup(r)
    \/ UpdateWrite(r)
    \/ PhotoLookup(r)
    \/ PhotoUpload(r)
    \/ PhotoWrite(r)
    \/ upload_wardrobe_item(r)
    \/ WardrobeCreate(r)
    \/ get_wardrobe_items(r)
    \/ delete_wardrobe_item_endpoint(r)
    \/ update_wardrobe_item_endpoint(r)
    \/ recategorize_all_items(r)
    \/ generate_outfit_looks(r)
    \/ root(r)
    \/ health_check(r)

SpecApp == InitApp /\ [][NextApp]_vars


(***************************************************************************)
(* Properties of the normalizers (SpecNorm, SpecFence)                     *)
(***************************************************************************)
\* the object the provider replied with, read back from its text
RepliedObject == JsonLoads(outcome.text).obj

\* the provider reply is the JSON text of an object over the given keys, bare
\* or padded with blanks
RepliesObjectOver(keys) ==
  /\ outcome.kind = "text"
  /\ JsonLoads(outcome.text).ok /\ JsonLoads(outcome.text).isObj
  /\ DOMAIN RepliedObject \subseteq keys
  /\ outcome.text \in {Wrap("plain", Render(RepliedObject)),
                       Wrap("padded", Render(RepliedObject))}

\* the outcome is an exception, an empty message or a text that is not JSON,
\* with or without a surrounding fence
ProviderFailed ==
  \/ outcome.kind \in FailureKinds
  \/ /\ outcome.kind = "text"
     /\ ~JsonLoads(outcome.text).ok
     /\ ~JsonLoads(StripFence(outcome.text)).ok

IsStyleDefault(r) ==
  /\ ~r.raised
  /\ ~r.success
  /\ \E summary \in Placeholders : r.insights = JObj(DefaultInsights(summary))

IsImageDefault(d) ==
  /\ d["top_label"] = "unknown"
  /\ d["top_confidence"] = "0.0"
  /\ d["all_predictions"] = "[]"

\* C1: for every provider outcome that is an exception, an empty text or a
\* text that is not JSON, generate_style_insights and analyze_image both
\* return their documented default object and neither raises.
C1_DefaultOnFailure ==
  ProviderFailed =>
    /\ "style" \in normDone => IsStyleDefault(styleOut)
    /\ "image" \in normDone => IsImageDefault(imageOut)

\* C2: when the reply is a JSON object lacking some of the expected style
\* keys, the returned insights hold every expected key: a missing key has its
\* empty default, a present key the provider's value.
C2_MissingKeysFilled ==
  ("style" \in normDone /\ RepliesObjectOver(StyleKeys)) =>
     /\ styleOut.success
     /\ styleOut.insights.isObj
     /\ \A k \in StyleKeys :
          /\ k \in DOMAIN styleOut.insights.obj
          /\ styleOut.insights.obj[k] =
               IF k \in DOMAIN RepliedObject THEN RepliedObject[k]
               ELSE IF k = "summary" \/ k = "cultural_tips" THEN "''" ELSE "[]"

\* C3: a result in which a default was substituted carries a fallback/error
\* marker: a style result made of defaults has success = false and an error,
\* and an image result without an "error" key holds, under every expected
\* key, the value the provider supplied.
C3_DefaultsAreMarked ==
  /\ ("style" \in normDone /\ ~styleOut.raised /\ ProviderFailed)
        => (~styleOut.success /\ styleOut.hasError)
  /\ ("image" \in normDone /\ "error" \notin DOMAIN imageOut) =>
        /\ RepliesObjectOver(StyleKeys \cup ImageKeys)
        /\ \A k \in ImageKeys :
             k \in DOMAIN RepliedObject /\ imageOut[k] = RepliedObject[k]

\* C4: for a reply that is a JSON object holding every expected key, the
\* output holds the provider's value under each expected key: the style
\* insights are the parsed object, and top_label, top_confidence and
\* all_predictions are the provider's.
C4_IdentityOnCompleteObjects ==
  /\ ("style" \in normDone /\ RepliesObjectOver(StyleKeys)
         /\ DOMAIN RepliedObject = StyleKeys) =>
        /\ ~styleOut.raised /\ styleOut.success
        /\ styleOut.insights = JObj(RepliedObject)
  /\ ("image" \in normDone /\ RepliesObjectOver(ImageKeys)
         /\ DOMAIN RepliedObject = ImageKeys) =>
        /\ "error" \notin DOMAIN imageOut
        /\ \A k \in ImageKeys : imageOut[k] = RepliedObject[k]

C4_Witness ==
  /\ normDone = {"style", "image"}
  /\ RepliesObjectOver(ImageKeys) /\ DOMAIN RepliedObject = ImageKeys
  /\ imageOut["top_label"] = "null" /\ imageOut["top_confidence"] = "a"
  /\ styleOut.success

\* C5: stripping the code fence twice gives the same text as stripping once.
C5_StripIdempotent == sstage = 2 => stwice = sonce

(***************************************************************************)
(* Properties of the route handlers (Spec)                                 *)
(***************************************************************************)
Done(r) == pc[r] = "done"
UserOf(r) == req[r].user_id
Stored(u) == users[u].clip_insights

\* the lookup of r itself failed with a database error
LookupFailed(r) ==
  resp[r].detail \in {"Failed to fetch profile: database error",
                      "Failed to generate style insights: database error",
                      "500: Database Error: database error"}

\* C6: an endpoint that looks a user up by id answers 404 when the lookup
\* finds no user with that id, and has made no provider call.
C6_UnknownUserIs404 ==
  \A r \in Reqs :
    (Done(r) /\ ~users[UserOf(r)].exists /\ ~LookupFailed(r)) =>
       resp[r].status = 404 /\ calls[r] = 0

\* generate_outfit_recommendations was entered by r and failed: no client,
\* an exception or an empty message from the provider, or a reply that is
\* not JSON
OutfitGenerationFailed(r) ==
  /\ Done(r) /\ req[r].endpoint = "outfit"
  /\ users[UserOf(r)].exists /\ ~LookupFailed(r)
  /\ \/ ~groqConfigured
     \/ reply[r].kind \in FailureKinds
     \/ reply[r].kind = "text" /\ ~JsonLoads(reply[r].text).ok

\* C7: when generate_outfit_recommendations fails, the outfit endpoint
\* answers with a 5xx status and no recommendations list; it never answers
\* 200 with partial or default outfits.
C7_OutfitFailureIs5xx ==
  \A r \in Reqs :
    OutfitGenerationFailed(r) =>
      /\ resp[r].status >= 500
      /\ ~resp[r].hasRecs
      /\ resp[r].success # "true"

C7_Witness ==
  \E r1, r2 \in Reqs :
    /\ OutfitGenerationFailed(r1) /\ groqConfigured /\ reply[r1].kind = "text"
    /\ resp[r1].status = 500
    /\ Done(r2) /\ req[r2].endpoint = "outfit" /\ resp[r2].status = 200
    /\ Len(resp[r2].recs) = 2

\* the provider call or the JSON parsing of the style-insights request r failed
StyleGenerationFailed(r) ==
  /\ Done(r) /\ req[r].endpoint = "style"
  /\ \/ reply[r].kind \in FailureKinds
     \/ reply[r].kind = "text" /\ ~JsonLoads(StripFence(reply[r].text)).ok

\* C8: when the provider call or the JSON parsing fails, the style-insights
\* endpoint does not fail the request: it answers with a non-5xx status and
\* a body carrying the structured fallback insights.
C8_StyleFailureDegrades ==
  \A r \in Reqs :
    StyleGenerationFailed(r) =>
      /\ resp[r].status < 500
      /\ resp[r].hasInsights
      /\ \E summary \in Placeholders : resp[r].insights = JObj(DefaultInsights(summary))

\* C8 as amended: the endpoint answers 500; the body carries success = false
\* and the structured fallback insights, except when the provider client
\* raised json.JSONDecodeError, where the body is an error detail only.
C8_StyleFailureIs500 ==
  \A r \in Reqs :
    StyleGenerationFailed(r) =>
      /\ resp[r].status = 500
      /\ IF reply[r].kind = "raise_json"
         THEN ~resp[r].hasInsights /\ resp[r].success = "absent"
         ELSE /\ resp[r].success = "false"
              /\ resp[r].hasInsights
              /\ \E summary \in Placeholders :
                   resp[r].insights = JObj(DefaultInsights(summary))

C8_Witness ==
  \E r1, r2 \in Reqs :
    /\ StyleGenerationFailed(r1) /\ reply[r1].kind = "raise"
    /\ resp[r1].insights = JObj(DefaultInsights(SummaryUnable))
    /\ StyleGenerationFailed(r2) /\ reply[r2].kind = "text"
    /\ resp[r2].insights = JObj(DefaultInsights(SummaryParseFailed))

\* the request whose update of u's row ran last (0 if none ran)
RECURSIVE LastWriterIn(_, _)
LastWriterIn(log, u) ==
  IF log = <<>> THEN 0
  ELSE IF UserOf(log[Len(log)]) = u THEN log[Len(log)]
  ELSE LastWriterIn(SubSeq(log, 1, Len(log) - 1), u)
LastWriter(u) == LastWriterIn(writeLog, u)
Wrote(r) == \E i \in DOMAIN writeLog : writeLog[i] = r

\* C9: two style-insights requests for one user that both generate insights
\* both answer success with their own insights, whatever the interleaving,
\* and once an update has run the stored persisted_style_insights is that of
\* the request whose update ran last.
C9_LastWriteWins ==
  /\ \A r \in Reqs :
       (Done(r) /\ req[r].endpoint = "style" /\ result[r].success) =>
          /\ resp[r].status = 200 /\ resp[r].success = "true"
          /\ resp[r].insights = result[r].insights
  /\ \A u \in UserIds :
       LastWriter(u) # 0 =>
          /\ Stored(u).hasPsi
          /\ Stored(u).psi = result[LastWriter(u)].insights

\* both requests re-read the row before either wrote, both wrote, and the
\* insights of the first writer are gone
C9_Witness ==
  \E r1, r2 \in Reqs :
    /\ r1 # r2 /\ Done(r1) /\ Done(r2)
    /\ UserOf(r1) = UserOf(r2)
    /\ writeLog = <<r1, r2>>
    /\ ~user_data[r1].hasPsi /\ ~user_data[r2].hasPsi
    /\ result[r1].insights # result[r2].insights
    /\ Stored(UserOf(r1)).psi = result[r2].insights
    /\ resp[r1].status = 200 /\ resp[r2].status = 200

\* r answers success = true in this step
AnswersSuccess(r) ==
  /\ pc[r] # "done" /\ pc'[r] = "done"
  /\ req[r].endpoint = "style"
  /\ resp'[r].success = "true"

RejectedSignup(r) == Done(r) /\ req[r].endpoint = "signup" /\ resp[r].status = 400

SignupRejections ==
  {"Password must be at least 6 characters",
   "Gender must be 'male', 'female', or 'other'",
   "User with this email already exists",
   "Invalid image type. Allowed: JPEG, PNG, GIF, WebP"}

\* C11: a signup answered 400 (short password, gender outside male, female,
\* other, email already stored, disallowed image type) has uploaded no image,
\* made no image-analysis call and created no user record; a password
\* shorter than 6 is answered 400 with the detail naming the minimum of 6.
C11_RejectedSignupHasNoEffect ==
  \A r \in Reqs :
    /\ RejectedSignup(r) =>
         /\ resp[r].detail \in SignupRejections
         /\ effects[r] \cap {"upload", "provider", "db_insert"} = {}
         /\ image_url[r] = NoUrl
         /\ calls[r] = 0
    /\ (Done(r) /\ req[r].endpoint = "signup"
          /\ Len(form[r].password) < MinPasswordLen) =>
         /\ resp[r].status = 400
         /\ resp[r].detail = "Password must be at least 6 characters"

\* one signup was rejected for its image type after the lookup by email,
\* another for the email that a third party had stored
C11_Witness ==
  \E r1, r2 \in Reqs :
    /\ RejectedSignup(r1) /\ effects[r1] = {"db_read"}
    /\ resp[r1].detail = "Invalid image type. Allowed: JPEG, PNG, GIF, WebP"
    /\ RejectedSignup(r2)
    /\ resp[r2].detail = "User with this email already exists"
    /\ form[r2].image.present
    /\ storage = {}

\* the signup request r was answered 201
Created(r) == Done(r) /\ req[r].endpoint = "signup" /\ resp[r].status = 201

\* C12: under every interleaving of concurrent signups at most one signup
\* per email address is answered 201, and the users table never holds two
\* rows with the same email (the store itself enforces no uniqueness).
C12_OneSignupPerEmail ==
  /\ \A r1, r2 \in Reqs :
       (r1 # r2 /\ Created(r1) /\ Created(r2)) => form[r1].email # form[r2].email
  /\ \A u1, u2 \in RowIds :
       (u1 # u2 /\ users[u1].exists /\ users[u2].exists) =>
          users[u1].email # users[u2].email

\* the login request r is answered in this step, the lookup having worked
LoginAnswers(r) ==
  /\ pc[r] = "login" /\ pc'[r] = "done"
  /\ resp'[r].detail # "Login failed: database error"

\* the row u carries the email of r and a hash that the password of r verifies against
CredentialsMatch(r, u) ==
  /\ users[u].exists
  /\ users[u].email = form[r].email
  /\ verify_password(form[r].password, users[u].password_hash)

\* C13: login answers 200 with the id, name and email of the stored user
\* exactly when a user with the given email exists and the password verifies
\* against its hash; otherwise it answers 401 with one fixed detail and a
\* body that holds no field of any user, the same for an unknown email as
\* for a wrong password.
C13_LoginIffCredentialsMatch ==
  [][\A r \in Reqs :
       LoginAnswers(r) =>
         IF \E u \in RowIds : CredentialsMatch(r, u)
         THEN \E u \in RowIds :
                /\ CredentialsMatch(r, u)
                /\ resp'[r] = LoginResponse(u, users[u])
         ELSE resp'[r] = HTTPException(401, "Invalid email or password")]_vars

(***************************************************************************)
(* Properties of the application as a whole (SpecApp)                      *)
(***************************************************************************)
\* C14: no step of any handler removes a row of the users table: a user
\* record that exists, in particular one created by a successful signup,
\* exists after every later call.
C14_UsersOnlyGrow ==
  [][\A u \in RowIds : users[u].exists => users'[u].exists]_vars

\* a row created by a signup is there after a later call deleted a wardrobe item
C14_Witness ==
  \E u \in NewIds, r \in Reqs :
    /\ users[u].exists
    /\ Done(r) /\ req[r].endpoint = "delete_wardrobe_item_endpoint"
    /\ resp[r].status = 200
    /\ FirstItem \notin items

\* update_profile answers r in this step
UpdateAnswers(r) ==
  /\ req[r].endpoint = "update_profile"
  /\ pc[r] # "done" /\ pc'[r] = "done"

\* the fields that r supplied with a non-empty value
Supplied(r) == {k \in ProfileFields : form[r].fields[k] \notin {PyNone, ""}}

\* C15: update-profile changes, for an existing user, exactly the fields
\* among name, gender, country, height, body_shape, skin_tone that were
\* supplied non-empty and leaves every other field of the record and every
\* other record unchanged; when no field is supplied non-empty it writes
\* nothing and answers "No changes to update".
C15_PartialUpdate ==
  [][\A r \in Reqs :
       UpdateAnswers(r) =>
         LET id == req[r].user_id
         IN  /\ \A u \in RowIds :
                  /\ u # id => users'[u] = users[u]
                  /\ [users'[u] EXCEPT !.profile = NoProfile]
                       = [users[u] EXCEPT !.profile = NoProfile]
                  /\ \A k \in ProfileFields \ Supplied(r) :
                       users'[u].profile[k] = users[u].profile[k]
             /\ resp'[r].message = "Profile updated successfully" =>
                  /\ resp'[r].status = 200
                  /\ Supplied(r) # {}
                  /\ \A k \in Supplied(r) : users'[id].profile[k] = form[r].fields[k]
             /\ (get_user_by_id(id).exists /\ Supplied(r) = {} /\ resp'[r].status # 500) =>
                  /\ resp'[r] = [NoResp EXCEPT !.status = 200,
                                               !.message = "No changes to update"]
                  /\ users' = users
                  /\ "db_update" \notin effects'[r]
             /\ (get_user_by_id(id).exists /\ Supplied(r) # {} /\ resp'[r].status # 500) =>
                  resp'[r].message = "Profile updated successfully"]_vars

\* country and height were written, the empty gender and the fields left
\* out were not
C15_Witness ==
  \E r \in Reqs :
    /\ Done(r) /\ req[r].endpoint = "update_profile"
    /\ resp[r].message = "Profile updated successfully"
    /\ form[r].fields["gender"] = "" /\ form[r].fields["name"] = PyNone
    /\ users[req[r].user_id].profile =
         [NoProfile EXCEPT !["name"] = "a", !["gender"] = "male",
                           !["country"] = "b", !["height"] = "b"]

\* update_profile or update_profile_photo answers r in this step
ProfileChangeAnswers(r) ==
  /\ req[r].endpoint \in {"update_profile", "update_profile_photo"}
  /\ pc[r] # "done" /\ pc'[r] = "done"

\* the lookup of r's user raised
ProfileLookupRaised(r) ==
  /\ pc[r] \in {"update_profile", "update_profile_photo"}
  /\ resp'[r].status = 500

\* C16: a request to update-profile or update-profile-photo that is answered
\* 4xx has performed no storage upload and no database update and leaves
\* every stored record unchanged; update-profile answers 400 to a user_id
\* that is empty, "null" or "undefined", both answer 404 to a user id that is
\* not in the store, and update-profile-photo answers 400 to a disallowed
\* image type and to an image larger than 5*1024*1024 bytes.
C16_RejectedUpdateHasNoEffect ==
  [][\A r \in Reqs :
       ProfileChangeAnswers(r) =>
         LET id == req[r].user_id
             photo == req[r].endpoint = "update_profile_photo"
             image == form[r].image
         IN  /\ resp'[r].status \in 400..499 =>
                  /\ users' = users /\ storage' = storage /\ items' = items
                  /\ effects'[r] \cap {"upload", "db_update", "db_insert"} = {}
                  /\ image_url'[r] = NoUrl
             /\ (~photo /\ id \in {"", "null", "undefined"}) => resp'[r].status = 400
             /\ (id \notin {"", "null", "undefined"} /\ ~get_user_by_id(id).exists
                   /\ ~ProfileLookupRaised(r)) => resp'[r].status = 404
             /\ (photo /\ ~get_user_by_id(id).exists /\ ~ProfileLookupRaised(r)) =>
                  resp'[r].status = 404
             /\ (photo /\ get_user_by_id(id).exists /\ ~ProfileLookupRaised(r)
                   /\ (image.content_type \notin AllowedImageTypes
                         \/ image.size > 5 * 1024 * 1024)) =>
                  resp'[r].status = 400]_vars

\* a photo of 5 MiB and one byte was refused and nothing was stored
C16_Witness ==
  \E r \in Reqs :
    /\ Done(r) /\ req[r].endpoint = "update_profile_photo"
    /\ resp[r] = HTTPException(400, "Image size must be less than 5MB")
    /\ form[r].image.size = 5 * 1024 * 1024 + 1
    /\ effects[r] = {"db_read"}
    /\ storage = {0}
    /\ users["u1"].image_url = NoUrl

\* a stub endpoint answers r in this step
StubAnswers(r) ==
  /\ pc[r] \in {"recategorize_all_items", "generate_outfit_looks"}
  /\ pc'[r] = "done"

\* C17: generate-looks and recategorize are stubs: whatever the input, each
\* answers its one fixed body with success = false and a message saying the
\* feature is disabled, and reads and writes nothing: no persistence
\* operation, no storage upload, no provider call.
C17_StubsDoNothing ==
  [][\A r \in Reqs :
       StubAnswers(r) =>
         /\ resp'[r] =
              [NoResp EXCEPT
                 !.status = 200, !.success = "false",
                 !.message = IF pc[r] = "recategorize_all_items"
                             THEN "AI Auto-categorization is disabled in this deployment."
                             ELSE "AI Virtual Try-On is coming soon (Disabled for optimization)."]
         /\ users' = users /\ storage' = storage /\ items' = items
         /\ effects'[r] = {} /\ calls'[r] = 0]_vars

\* recategorize was called for a user that does not exist
C17_Witness ==
  \E r \in Reqs :
    /\ Done(r) /\ req[r].endpoint = "recategorize_all_items"
    /\ ~get_user_by_id(req[r].user_id).exists
    /\ resp[r].success = "false"

\* C18: a handled request makes at most one call to a model provider, and
\* only signup, style-insights and generate-outfit-recommendations make
\* one; a failed call is not repeated.
C18_AtMostOneProviderCall ==
  \A r \in Reqs :
    /\ calls[r] <= 1
    /\ calls[r] = 1 => req[r].endpoint \in {"signup", "style", "outfit"}
    /\ (Done(r) /\ reply[r] # NoReply) => calls[r] = 1

\* the image analysis of a signup failed and was not repeated
C18_Witness ==
  \E r \in Reqs :
    /\ Done(r) /\ req[r].endpoint = "signup"
    /\ reply[r].kind \in FailureKinds
    /\ calls[r] = 1
    /\ resp[r].status = 201

\* the path /wardrobe/items/<id>
IsWardrobeItemsPath(path) ==
  Len(path) = 3 /\ path[1] = "wardrobe" /\ path[2] = "items"

\* C19: the route table serves the wardrobe handlers under /wardrobe: POST
\* /wardrobe/upload, GET /wardrobe/items/{user_id}, DELETE and PATCH
\* /wardrobe/items/{item_id} reach upload_wardrobe_item, get_wardrobe_items,
\* delete_wardrobe_item_endpoint and update_wardrobe_item_endpoint.
C19_WardrobePrefix ==
  \A r \in Reqs :
    pc[r] # "idle" =>
      /\ (call[r].method = "POST" /\ call[r].path = <<"wardrobe", "upload">>) =>
           req[r].endpoint = "upload_wardrobe_item"
      /\ (call[r].method = "GET" /\ IsWardrobeItemsPath(call[r].path)) =>
           req[r].endpoint = "get_wardrobe_items"
      /\ (call[r].method = "DELETE" /\ IsWardrobeItemsPath(call[r].path)) =>
           req[r].endpoint = "delete_wardrobe_item_endpoint"
      /\ (call[r].method = "PATCH" /\ IsWardrobeItemsPath(call[r].path)) =>
           req[r].endpoint = "update_wardrobe_item_endpoint"

(***************************************************************************)
(* Properties of malformed outfit sections (Spec)                          *)
(***************************************************************************)
\* the reply to the outfit request r is a JSON object whose outfits hold a
\* section with a non-empty value that is not an object
HasMalformedSection(r) ==
  /\ Done(r) /\ req[r].endpoint = "outfit"
  /\ reply[r].kind = "text"
  /\ LET recommendations_data == JsonLoads(reply[r].text)
     IN  /\ recommendations_data.ok /\ recommendations_data.isObj
         /\ LET v == Get(recommendations_data.obj, "outfits", "[]")
            IN  /\ v \in DOMAIN OutfitLists
                /\ \E i \in DOMAIN OutfitLists[v] :
                     \E n \in DOMAIN OutfitLists[v][i].sections :
                       OutfitLists[v][i].sections[n].kind = "text"

\* C20: when the provider's JSON holds a section (top, layer, bottom,
\* footwear or accessories) whose value is non-empty but not an object,
\* generate_outfit_recommendations raises: no default section takes the
\* place of the error, no list is returned, and the endpoint answers 5xx.
C20_MalformedSectionIs5xx ==
  \A r \in Reqs :
    HasMalformedSection(r) =>
      /\ resp[r].status >= 500
      /\ ~resp[r].hasRecs
      /\ resp[r].recs = <<>>

\* a look whose footwear is a string was answered 500 after one provider call
C20_Witness ==
  \E r \in Reqs :
    /\ HasMalformedSection(r)
    /\ reply[r] = Replies(Render(("outfits" :> "looks_bad")))
    /\ resp[r].status = 500
    /\ calls[r] = 1

(***************************************************************************)
(* Properties of the response bodies (SpecApp)                             *)
(***************************************************************************)
\* C21: whatever the sequence of requests, no response body of signup,
\* login, get profile, update-profile, update-profile-photo or
\* style-insights holds the password_hash of a user.
C21_NoPasswordHashInBody ==
  \A r \in Reqs :
    /\ resp[r].data.password_hash = <<>>
    /\ "password_hash" \notin DOMAIN resp[r].body

(***************************************************************************)
(* Properties of the persisted style insights (Spec)                       *)
(***************************************************************************)
\* the style-insights request r runs its update and answers in this step
StyleWrites(r) == pc[r] = "write" /\ pc'[r] = "done"

\* C22: persisting style insights preserves the rest of the clip_insights
\* blob: under any interleaving of style-insights requests, the update of a
\* request leaves every key of the stored clip_insights other than
\* persisted_style_insights (top_label, top_confidence, all_predictions,
\* source or error from signup) as it was, writes no other column of the
\* user's row and no other row.
C22_WritePreservesBlob ==
  [][\A r \in Reqs :
       StyleWrites(r) =>
         \A u \in RowIds :
           /\ users'[u].clip_insights.base = users[u].clip_insights.base
           /\ [users'[u] EXCEPT !.clip_insights = ClipNone]
                = [users[u] EXCEPT !.clip_insights = ClipNone]
           /\ u # req[r].user_id => users'[u] = users[u]]_vars

\* two requests wrote into a blob that signup had filled with the fallback of
\* a failed image analysis, and its keys are still there
C22_Witness ==
  \E r \in Reqs :
    /\ Done(r) /\ req[r].endpoint = "style" /\ resp[r].status = 200
    /\ Len(writeLog) = 2 /\ writeLog[2] = r /\ UserOf(writeLog[1]) = UserOf(r)
    /\ Stored(UserOf(r)).hasPsi
    /\ Stored(UserOf(r)).base = ImageFallback("str(e)")

\* C23: persisted_style_insights is only ever written with the insights of
\* a generation that reported success: a style-insights request whose
\* generation failed, and which returns the fallback object, goes on to no
\* database write, so a persisted genuine result is never replaced by a
\* fallback object.
C23_OnlySuccessIsPersisted ==
  [][/\ \A u \in RowIds :
          users'[u].clip_insights # users[u].clip_insights =>
            \E r \in Reqs :
              /\ StyleWrites(r) /\ req[r].user_id = u
              /\ result[r].success /\ ~result[r].raised
              /\ users'[u].clip_insights.hasPsi
              /\ users'[u].clip_insights.psi = result[r].insights
     /\ \A r \in Reqs :
          (pc[r] = "provider" /\ req[r].endpoint = "style" /\ pc'[r] # "provider"
             /\ ~result'[r].success) =>
            /\ pc'[r] = "done"
            /\ users' = users /\ writeLog' = writeLog]_vars

\* the insights persisted by one request are still stored after the
\* generation of a second request for the same user failed
C23_Witness ==
  \E r1, r2 \in Reqs :
    /\ r1 # r2 /\ UserOf(r1) = UserOf(r2)
    /\ writeLog = <<r1>> /\ Done(r1)
    /\ Done(r2) /\ req[r2].endpoint = "style"
    /\ ~result[r2].success /\ ~result[r2].raised
    /\ resp[r2] = InsightsResponse(500, "false", JObj(DefaultInsights(SummaryUnable)))
    /\ Stored(UserOf(r1)).psi = result[r1].insights
    /\ Stored(UserOf(r1)).psi # resp[r2].insights

\* get_profile answers r with the row in this step
ProfileAnswers(r) ==
  /\ pc[r] = "lookup" /\ req[r].endpoint = "profile"
  /\ pc'[r] = "done" /\ resp'[r].status = 200

\* C24: GET /auth/profile/{user_id} returns a style_insights field equal to
\* the stored clip_insights.persisted_style_insights of the user, which is
\* the insights of the latest style-insights request whose update ran, and
\* returns no style_insights field while nothing is persisted for the user.
C24_ProfileReturnsPersisted ==
  [][\A r \in Reqs :
       ProfileAnswers(r) =>
         LET u == req[r].user_id
         IN  /\ resp'[r].hasInsights <=> Stored(u).hasPsi
             /\ Stored(u).hasPsi =>
                  /\ resp'[r].insights = Stored(u).psi
                  /\ LastWriter(u) # 0
                  /\ resp'[r].insights = result[LastWriter(u)].insights
             /\ ~Stored(u).hasPsi => resp'[r].insights = JErr]_vars

\* a profile was read after a style-insights request had persisted its insights
C24_Witness ==
  \E r1, r2 \in Reqs :
    /\ Done(r1) /\ req[r1].endpoint = "profile" /\ resp[r1].status = 200
    /\ resp[r1].hasInsights
    /\ writeLog = <<r2>> /\ UserOf(r2) = UserOf(r1)
    /\ resp[r1].insights = result[r2].insights
    /\ resp[r1].insights.ok

(***************************************************************************)
(* Properties of the effects of signup and update-profile                  *)
(***************************************************************************)
\* the image analysis of the signup request r failed
AnalysisFailed(r) == req[r].endpoint = "signup" /\ reply[r].kind \in FailureKinds

\* the fallback object of analyze_image
IsAnalysisFallback(clip) ==
  /\ ~clip.isNone
  /\ DOMAIN clip.base = {"top_label", "top_confidence", "all_predictions", "error"}
  /\ clip.base["top_label"] = "unknown"
  /\ clip.base["top_confidence"] = "0.0"
  /\ clip.base["all_predictions"] = "[]"

\* C25: a failure of the image-analysis provider never fails a signup: a
\* valid signup whose image analysis errors goes on to create the user, the
\* store accepting the row, and is answered 201; the stored clip_insights
\* and the clip_insights of the response are the fallback object (top_label
\* "unknown", top_confidence 0.0, empty all_predictions, an "error" entry).
C25_AnalysisFailureKeepsSignup ==
  [][\A r \in Reqs :
       /\ (pc[r] = "signup_upload" /\ pc'[r] # "signup_upload" /\ AnalysisFailed(r)') =>
            /\ pc'[r] = "signup_create"
            /\ IsAnalysisFallback(clip_insights_data'[r])
       /\ (pc[r] = "signup_create" /\ pc'[r] = "done" /\ AnalysisFailed(r)) =>
            \/ /\ resp'[r].status = 201
               /\ IsAnalysisFallback(resp'[r].clip_insights)
               /\ resp'[r].body["user_id"] \in NewIds
               /\ ~users[resp'[r].body["user_id"]].exists
               /\ users'[resp'[r].body["user_id"]].exists
               /\ users'[resp'[r].body["user_id"]].email = form[r].email
               /\ IsAnalysisFallback(users'[resp'[r].body["user_id"]].clip_insights)
            \/ /\ resp'[r].status = 500
               /\ resp'[r].detail \in {"Failed to create user",
                                       "Signup failed: database error"}
               /\ users' = users]_vars

\* a signup whose image analysis raised was answered 201 with the fallback
C25_Witness ==
  \E r \in Reqs :
    /\ Done(r) /\ AnalysisFailed(r) /\ reply[r] = Raises("raise")
    /\ resp[r].status = 201
    /\ IsAnalysisFallback(resp[r].clip_insights)
    /\ IsAnalysisFallback(users[resp[r].body["user_id"]].clip_insights)
    /\ users[resp[r].body["user_id"]].image_url # NoUrl

\* C26: after any sequence of signup and update-profile requests the gender
\* of every stored user is one of male, female, other.
C26_GenderStaysValid ==
  \A u \in RowIds : users[u].exists => users[u].profile["gender"] \in Genders

\* C27: signup is atomic in its persistent effects: of a signup that has
\* not ended with 201, the creation of the user having failed or raised
\* after the image was processed included, neither a user record nor an
\* uploaded profile image remains.
C27_FailedSignupLeavesNothing ==
  \A r \in Reqs :
    (Done(r) /\ req[r].endpoint = "signup" /\ resp[r].status # 201) =>
      /\ "db_insert" \notin effects[r]
      /\ image_url[r].isNone \/ image_url[r].file \notin storage

(***************************************************************************)
(* Properties of the prompt builders (SpecPrompt)                          *)
(***************************************************************************)
\* the countries that a prompt names
CountriesOf(prompt) ==
  {prompt[i + 1] : i \in {j \in 1..(Len(prompt) - 1) : prompt[j] \in CountryLabels}}

\* the country that both prompts are to name for a profile
ExpectedCountry(profile) ==
  IF "country" \notin DOMAIN profile \/ profile["country"] \in {PyNone, ""}
  THEN "Pakistan"
  ELSE profile["country"]

\* C28: both prompts built for one outfit request use the same country:
\* "Pakistan" whenever the country of the profile is absent, null or empty,
\* and the country of the profile verbatim otherwise.
C28_SameCountryInBothPrompts ==
  promptDone = {"outfit", "image"} =>
    /\ CountriesOf(outfit_prompt) = {ExpectedCountry(user_profile)}
    /\ CountriesOf(image_prompt) = {ExpectedCountry(user_profile)}

====
